---- MODULE Spec2Model ----
(***************************************************************************)
(* The documentation content extractor of pkg/typegen/scraper.go.          *)
(*                                                                         *)
(* Strings are sequences of tokens [n, t]: n is the DOM node a token comes *)
(* from (0 for text the extractor writes itself) and t is its kind.        *)
(* Words of page text are classified relative to the requested symbol:     *)
(*   "S"   the symbol itself          "Sa", "Sb"  its two halves           *)
(*   "x"   a word unrelated to it     " "         white space              *)
(* so that a substring test (strings.Contains) is decided on the tokens:   *)
(* the symbol occurs where an "S" stands, where "Sa" is directly followed  *)
(* by "Sb", or inside a rendered start tag that carries an attribute value *)
(* built from the symbol.  Attribute values are "" (absent), "S",          *)
(* "S-method", "S-function", "method-S", "function-S" or "other".          *)
(***************************************************************************)
EXTENDS Integers, Sequences, FiniteSets, TLC

\* scraper.go:17
maxDepth == 3

\* Largest number of sibling items in the body of a served page.
MaxItems == 3

(***************************************************************************)
(* The DOM: a sequence of element nodes in document order (preorder); par  *)
(* is the index of the parent (0 for the root); txt is the element's own   *)
(* text, which precedes its child elements.                                *)
(***************************************************************************)
Node(tag, par, id, cls, txt) ==
    [tag |-> tag, par |-> par, id |-> id, name |-> "", cls |-> cls,
     role |-> "", dataFunction |-> "", dataMethod |-> "", txt |-> txt]

Tok(n, t) == [n |-> n, t |-> t]

NL == Tok(0, "\n")

\* Is anc a proper ancestor of node j?
RECURSIVE IsAncestor(_, _, _)
IsAncestor(doc, anc, j) ==
    IF doc[j].par = 0 THEN FALSE
    ELSE doc[j].par = anc \/ IsAncestor(doc, anc, doc[j].par)

\* The proper descendants of node i, in document order (goquery Find("*")).
Descendants(doc, i) == { j \in 1..Len(doc) : IsAncestor(doc, i, j) }

\* Concatenation of a sequence of sequences.
RECURSIVE Flatten(_)
Flatten(ss) ==
    IF ss = <<>> THEN <<>> ELSE Head(ss) \o Flatten(Tail(ss))

\* goquery Selection.Text(): the text of the node and of its descendants.
RECURSIVE TextFrom(_, _, _)
TextFrom(doc, i, k) ==
    IF k > Len(doc) THEN <<>>
    ELSE IF k = i \/ IsAncestor(doc, i, k)
         THEN [w \in 1..Len(doc[k].txt) |-> Tok(k, doc[k].txt[w])]
              \o TextFrom(doc, i, k + 1)
         ELSE TextFrom(doc, i, k + 1)

Text(doc, i) == TextFrom(doc, i, i)

\* goquery Selection.Html(): the inner HTML of the node; a child element is
\* rendered as its start tag (with its attributes), its inner HTML and its
\* end tag.
RECURSIVE HtmlFrom(_, _, _)
HtmlFrom(doc, i, k) ==
    IF k > Len(doc) THEN <<>>
    ELSE IF doc[k].par = i
         THEN <<Tok(k, "<")>>
              \o [w \in 1..Len(doc[k].txt) |-> Tok(k, doc[k].txt[w])]
              \o HtmlFrom(doc, k, k + 1)
              \o <<Tok(k, "</")>>
              \o HtmlFrom(doc, i, k + 1)
         ELSE HtmlFrom(doc, i, k + 1)

Html(doc, i) ==
    [w \in 1..Len(doc[i].txt) |-> Tok(i, doc[i].txt[w])] \o HtmlFrom(doc, i, i + 1)

(***************************************************************************)
(* String tests on token sequences.                                        *)
(***************************************************************************)
SymForms == {"S", "S-method", "S-function", "method-S", "function-S"}

\* Does the rendered start tag of node n spell the symbol (in an attribute)?
TagSpellsSym(doc, n) ==
    \/ doc[n].id \in SymForms
    \/ doc[n].name \in SymForms
    \/ doc[n].dataFunction \in SymForms
    \/ doc[n].dataMethod \in SymForms

\* strings.Contains(s, funcName)
Contains(doc, s, funcName) ==
    \/ funcName = ""
    \/ \E k \in 1..Len(s) :
          \/ s[k].t = "S"
          \/ s[k].t = "Sa" /\ k < Len(s) /\ s[k + 1].t = "Sb"
          \/ s[k].t = "<" /\ TagSpellsSym(doc, s[k].n)

IsSpace(tok) == tok.t \in {" ", "\n"}

\* strings.TrimSpace
RECURSIVE TrimLeft(_)
TrimLeft(s) ==
    IF s # <<>> /\ IsSpace(Head(s)) THEN TrimLeft(Tail(s)) ELSE s

RECURSIVE TrimRight(_)
TrimRight(s) ==
    IF s # <<>> /\ IsSpace(s[Len(s)]) THEN TrimRight(SubSeq(s, 1, Len(s) - 1)) ELSE s

TrimSpace(s) == TrimRight(TrimLeft(s))

\* The comparison taken as a substring test.
EqualsSymWithin(s) == \E k \in 1..Len(s) : s[k].t = "S"

\* s == funcName, for a non-empty funcName
EqualsSym(s) ==
    \/ Len(s) = 1 /\ s[1].t = "S"
    \/ Len(s) = 2 /\ s[1].t = "Sa" /\ s[2].t = "Sb"

\* strings.ToLower on an attribute value; "S^" is the symbol written with
\* upper-case letters (the requested symbol itself is lower-case).
ToLower(v) ==
    CASE v = "S^" -> "S"
      [] v = "S^-method" -> "S-method"
      [] OTHER -> v

(***************************************************************************)
(* scraper.go:342-385                                                      *)
(***************************************************************************)
isHeadingElement(doc, i) ==
    doc[i].tag \in {"h1", "h2", "h3", "h4", "h5", "h6"}

getHeadingLevel(doc, i) ==
    CASE doc[i].tag = "h1" -> 1
      [] doc[i].tag = "h2" -> 2
      [] doc[i].tag = "h3" -> 3
      [] doc[i].tag = "h4" -> 4
      [] doc[i].tag = "h5" -> 5
      [] doc[i].tag = "h6" -> 6
      [] OTHER -> 0

isContentElement(name) ==
    name \in {"div", "section", "article", "main", "p", "pre", "code",
              "table", "ul", "ol", "dl", "blockquote", "figure", "details",
              "summary", "aside", "header", "footer", "nav"}

(***************************************************************************)
(* scraper.go:232-281                                                      *)
(***************************************************************************)
\* The comparison with the bare symbol only.
AttrFormsBare(funcName) ==
    IF funcName = "S" THEN {"S"} ELSE {}

\* The decorated forms the attribute loop compares against (lines 257-261).
AttrForms(funcName) ==
    IF funcName = "S" THEN SymForms ELSE {}

isFunctionContainer(doc, i, funcName) ==
    IF ~Contains(doc, Text(doc, i), funcName) THEN FALSE
    ELSE IF isHeadingElement(doc, i) THEN TRUE
    ELSE LET relevantAttrs ==
               {doc[i].id, doc[i].name, doc[i].dataFunction, doc[i].dataMethod,
                ToLower(doc[i].id), ToLower(doc[i].name),
                ToLower(doc[i].dataFunction), ToLower(doc[i].dataMethod)}
         IN IF relevantAttrs \cap AttrForms(funcName) # {} THEN TRUE
            ELSE IF doc[i].tag \in {"section", "div", "article"}
                 THEN \E h \in Descendants(doc, i) :
                         /\ isHeadingElement(doc, h)
                         /\ EqualsSym(TrimSpace(Text(doc, h)))
                 ELSE FALSE

(***************************************************************************)
(* scraper.go:284-340                                                      *)
(***************************************************************************)
\* goquery Selection.Next(): the next sibling element, 0 when there is none.
NextSibling(doc, i) ==
    LET later == { j \in (i + 1)..Len(doc) : doc[j].par = doc[i].par }
    IN IF later = {} THEN 0 ELSE CHOOSE j \in later : \A k \in later : j <= k

\* The loop with its boundary test taken as strictly shallower (< for <=).
RECURSIVE SiblingWalkStrict(_, _, _)
SiblingWalkStrict(doc, headingLevel, next) ==
    IF next = 0 THEN <<>>
    ELSE IF isHeadingElement(doc, next) /\ getHeadingLevel(doc, next) < headingLevel
         THEN <<>>
         ELSE Html(doc, next) \o <<NL>>
              \o SiblingWalkStrict(doc, headingLevel, NextSibling(doc, next))

\* The loop of lines 302-316, from sibling next on.
RECURSIVE SiblingWalk(_, _, _)
SiblingWalk(doc, headingLevel, next) ==
    IF next = 0 THEN <<>>
    ELSE IF isHeadingElement(doc, next) /\ getHeadingLevel(doc, next) <= headingLevel
         THEN <<>>
         ELSE Html(doc, next) \o <<NL>>
              \o SiblingWalk(doc, headingLevel, NextSibling(doc, next))

\* The scan of line 322 taken over pre elements only.
extractFunctionSectionPreOnly(doc, i, funcName, depth) ==
    IF depth > maxDepth THEN <<>>
    ELSE IF isHeadingElement(doc, i) /\ Contains(doc, Text(doc, i), funcName)
    THEN <<Tok(i, "<h")>> \o Html(doc, i) \o <<Tok(i, "</"), NL>>
         \o SiblingWalk(doc, getHeadingLevel(doc, i), NextSibling(doc, i))
    ELSE Flatten([c \in 1..Len(doc) |->
                    IF /\ IsAncestor(doc, i, c)
                       /\ doc[c].tag = "pre"
                       /\ Contains(doc, Text(doc, c), funcName)
                    THEN Html(doc, c) \o <<NL>>
                    ELSE <<>>])
         \o (IF /\ doc[i].tag \in {"table", "ul", "ol"}
                /\ Contains(doc, Text(doc, i), funcName)
             THEN Html(doc, i) \o <<NL>>
             ELSE <<>>)

extractFunctionSection(doc, i, funcName, depth) ==
    IF depth > maxDepth THEN <<>>
    ELSE IF isHeadingElement(doc, i) /\ Contains(doc, Text(doc, i), funcName)
    THEN <<Tok(i, "<h")>> \o Html(doc, i) \o <<Tok(i, "</"), NL>>
         \o SiblingWalk(doc, getHeadingLevel(doc, i), NextSibling(doc, i))
    ELSE Flatten([c \in 1..Len(doc) |->
                    IF /\ IsAncestor(doc, i, c)
                       /\ doc[c].tag \in {"pre", "code"}
                       /\ Contains(doc, Text(doc, c), funcName)
                    THEN Html(doc, c) \o <<NL>>
                    ELSE <<>>])
         \o (IF /\ doc[i].tag \in {"table", "ul", "ol"}
                /\ Contains(doc, Text(doc, i), funcName)
             THEN Html(doc, i) \o <<NL>>
             ELSE <<>>)

(***************************************************************************)
(* scraper.go:199-229                                                      *)
(***************************************************************************)
\* The extraction that takes the whole element whenever it mentions the symbol.
extractRelevantSectionWhole(doc, i, funcName) ==
    IF Contains(doc, Text(doc, i), funcName) THEN Html(doc, i) ELSE <<>>

\* The extraction without the whole-element step of lines 210-214.
extractRelevantSectionNoWhole(doc, i, funcName) ==
    IF isFunctionContainer(doc, i, funcName)
    THEN extractFunctionSection(doc, i, funcName, 0)
    ELSE Flatten([child \in 1..Len(doc) |->
                    IF IsAncestor(doc, i, child) /\ isFunctionContainer(doc, child, funcName)
                    THEN LET section == extractFunctionSection(doc, child, funcName, 0)
                         IN IF section # <<>> THEN section \o <<NL, NL>> ELSE <<>>
                    ELSE <<>>])

extractRelevantSection(doc, i, funcName) ==
    IF isFunctionContainer(doc, i, funcName)
    THEN LET functionSection == extractFunctionSection(doc, i, funcName, 0)
         IN IF functionSection # <<>> THEN functionSection ELSE Html(doc, i)
    ELSE Flatten([child \in 1..Len(doc) |->
                    IF IsAncestor(doc, i, child) /\ isFunctionContainer(doc, child, funcName)
                    THEN LET section == extractFunctionSection(doc, child, funcName, 0)
                         IN IF section # <<>> THEN section \o <<NL, NL>> ELSE <<>>
                    ELSE <<>>])

(***************************************************************************)
(* The pages a server may return.  A page is html > (head > title?) and    *)
(* body; the body holds up to MaxItems sibling items, directly or inside   *)
(* one wrapper element: a leading item and the items that follow it.       *)
(***************************************************************************)
TitleKinds == {"none", "x", "S"}

WrapperKinds == {"none", "main", "article", "div#S-method"}

LeadKinds == {"hS", "pSplit", "pre0", "px"}

FollowKinds == {"px", "h1x", "h2x", "h3x", "preS"}

\* The nodes of one item whose parent is par and whose first node gets index at.
ItemNodes(kind, par, at) ==
    CASE kind = "hS"     -> <<Node("h2", par, "S", "", <<"S">>)>>
      [] kind = "h1x"    -> <<Node("h1", par, "", "", <<"x">>)>>
      [] kind = "h2x"    -> <<Node("h2", par, "", "", <<"x">>)>>
      [] kind = "h3x"    -> <<Node("h3", par, "", "", <<"x">>)>>
      [] kind = "px"     -> <<Node("p", par, "", "", <<"x">>)>>
      [] kind = "preS"   -> <<Node("pre", par, "", "", <<"x", "S">>)>>
      [] kind = "pSplit" -> <<Node("p", par, "", "", <<"Sa">>),
                              Node("b", at, "", "", <<"Sb">>)>>
      [] kind = "pre0"   -> <<Node("pre", par, "", "", <<>>)>>
      [] kind = "hS0"    -> <<Node("h2", par, "", "", <<"S">>)>>
      [] kind = "tableS" -> <<Node("table", par, "", "", <<"S", "x">>)>>

RECURSIVE AddItems(_, _, _)
AddItems(nodes, par, items) ==
    IF items = <<>> THEN nodes
    ELSE AddItems(nodes \o ItemNodes(Head(items), par, Len(nodes) + 1), par, Tail(items))

Page(title, wrapper, items) ==
    LET top == <<Node("html", 0, "", "", <<>>), Node("head", 1, "", "", <<>>)>>
               \o (IF title = "none" THEN <<>> ELSE <<Node("title", 2, "", "", <<title>>)>>)
               \o <<Node("body", 1, "", "", <<>>)>>
        body == Len(top)
        wrapped == CASE wrapper = "none"    -> top
                     [] wrapper = "main"    -> top \o <<Node("main", body, "", "", <<>>)>>
                     [] wrapper = "article" -> top \o <<Node("article", body, "", "", <<>>)>>
                     [] wrapper = "div#S-method" ->
                            top \o <<Node("div", body, "S-method", "", <<>>)>>
                     [] OTHER -> top \o <<Node(wrapper, body, "", "", <<>>)>>
    IN AddItems(wrapped, Len(wrapped), items)

ItemSeqs ==
    { <<lead>> \o rest : lead \in LeadKinds,
                         rest \in UNION { [1..n -> FollowKinds] : n \in 0..(MaxItems - 1) } }

Pages == { Page(t, w, it) : t \in TitleKinds, w \in WrapperKinds, it \in ItemSeqs }

(***************************************************************************)
(* The callbacks ScrapeDocumentation registers.  A fragment records what   *)
(* one invocation of a callback wrote to the content builder: the pass,    *)
(* the index of the callback in registration order, the matched node and   *)
(* the text written.                                                       *)
(***************************************************************************)
Frag(p, cb, n, s) == [p |-> p, cb |-> cb, n |-> n, s |-> s]

\* scraper.go:50-54
genericSelectors ==
    <<[k |-> "tag", v |-> "main"], [k |-> "tag", v |-> "article"],
      [k |-> "cls", v |-> "documentation"], [k |-> "cls", v |-> "docs"],
      [k |-> "cls", v |-> "content"], [k |-> "cls", v |-> "main-content"],
      [k |-> "cls", v |-> "api-docs"], [k |-> "cls", v |-> "api-reference"],
      [k |-> "id", v |-> "documentation"], [k |-> "cls", v |-> "markdown-body"],
      [k |-> "role", v |-> "main"], [k |-> "cls", v |-> "api-content"]>>

\* scraper.go:57-68
symbolSelectors ==
    <<[k |-> "id", v |-> "S"], [k |-> "id", v |-> "S-method"],
      [k |-> "id", v |-> "S-function"], [k |-> "id", v |-> "method-S"],
      [k |-> "id", v |-> "function-S"], [k |-> "name", v |-> "S"],
      [k |-> "dataFunction", v |-> "S"], [k |-> "dataMethod", v |-> "S"]>>

\* The symbol-specific selectors appended instead of prepended.
selectorsGenericFirst(funcName) ==
    IF funcName # "" THEN genericSelectors \o symbolSelectors ELSE genericSelectors

selectors(funcName) ==
    IF funcName # "" THEN symbolSelectors \o genericSelectors ELSE genericSelectors

\* Does node i match the selector?
Matches(doc, i, sel) == doc[i][sel.k] = sel.v

\* A title callback that writes nothing.
OnTitleSilent(doc, i) == <<>>

\* scraper.go:44-46
OnTitle(doc, i) == <<Tok(0, "# ")>> \o Text(doc, i) \o <<NL, NL>>

\* The test of lines 74-76 passed without the text filter.
SelectorHandsOverUnfiltered(doc, i, funcName) == funcName # ""

\* lines 74-78: is the matched element handed to extractRelevantSection?
SelectorHandsOver(doc, i, funcName) ==
    funcName # "" /\ Contains(doc, Text(doc, i), funcName)

\* The blank line of line 81 written whatever the extractor returned.
OnSelectorBlankLine(doc, i, funcName) ==
    IF funcName # ""
    THEN IF SelectorHandsOver(doc, i, funcName)
         THEN LET extractedText == extractRelevantSection(doc, i, funcName)
              IN extractedText \o <<NL, NL>>
         ELSE <<>>
    ELSE LET text == TrimSpace(Text(doc, i))
         IN (IF text # <<>> THEN text \o <<NL, NL>> ELSE <<>>)
            \o Flatten([c \in 1..Len(doc) |->
                          IF IsAncestor(doc, i, c) /\ doc[c].tag \in {"pre", "code", "table"}
                          THEN <<NL>> \o Html(doc, c) \o <<NL>>
                          ELSE <<>>])

\* scraper.go:72-105
OnSelector(doc, i, funcName) ==
    IF funcName # ""
    THEN IF SelectorHandsOver(doc, i, funcName)
         THEN LET extractedText == extractRelevantSection(doc, i, funcName)
              IN IF extractedText # <<>> THEN extractedText \o <<NL, NL>> ELSE <<>>
         ELSE <<>>
    ELSE LET text == TrimSpace(Text(doc, i))
         IN (IF text # <<>> THEN text \o <<NL, NL>> ELSE <<>>)
            \o Flatten([c \in 1..Len(doc) |->
                          IF IsAncestor(doc, i, c) /\ doc[c].tag \in {"pre", "code", "table"}
                          THEN <<NL>> \o Html(doc, c) \o <<NL>>
                          ELSE <<>>])

\* scraper.go:109-121
OnCode(doc, i, funcName) ==
    IF funcName # "" /\ ~Contains(doc, Text(doc, i), funcName) THEN <<>>
    ELSE LET text == Text(doc, i)
         IN IF text # <<>>
            THEN <<NL, Tok(0, "fence"), NL>> \o text \o <<NL, Tok(0, "fence"), NL>>
            ELSE <<>>

\* lines 155-158: is the element handed to extractRelevantSection?
AnyHandsOver(doc, i, funcName) ==
    Contains(doc, Text(doc, i), funcName) /\ isContentElement(doc[i].tag)

\* scraper.go:153-165
OnAny(doc, i, funcName) ==
    IF AnyHandsOver(doc, i, funcName)
    THEN LET extractedText == extractRelevantSection(doc, i, funcName)
         IN IF extractedText # <<>> THEN extractedText \o <<NL, NL>> ELSE <<>>
    ELSE <<>>

\* The fragments one registered callback leaves: it is invoked on every
\* matching node, in document order; an invocation that writes nothing
\* leaves no fragment.
Written(p, cb, n, s) == IF s = <<>> THEN <<>> ELSE <<Frag(p, cb, n, s)>>

\* An element written for the first selector that matches it only.
FirstPassOncePerNode(doc, funcName) ==
    LET sels == selectors(funcName)
    IN Flatten([i \in 1..Len(doc) |->
                  IF doc[i].tag = "title" THEN Written(1, 0, i, OnTitle(doc, i)) ELSE <<>>])
       \o Flatten([c \in 1..Len(sels) |->
             Flatten([i \in 1..Len(doc) |->
                IF /\ Matches(doc, i, sels[c])
                   /\ \A b \in 1..(c - 1) : ~Matches(doc, i, sels[b])
                THEN Written(1, c, i, OnSelector(doc, i, funcName))
                ELSE <<>>])])
       \o Flatten([i \in 1..Len(doc) |->
                  IF doc[i].tag \in {"pre", "code"}
                  THEN Written(1, Len(sels) + 1, i, OnCode(doc, i, funcName))
                  ELSE <<>>])

\* The "pre, code" callback registered before the selectors' callbacks.
FirstPassCodeFirst(doc, funcName) ==
    LET sels == selectors(funcName)
    IN Flatten([i \in 1..Len(doc) |->
                  IF doc[i].tag = "title" THEN Written(1, 0, i, OnTitle(doc, i)) ELSE <<>>])
       \o Flatten([i \in 1..Len(doc) |->
                  IF doc[i].tag \in {"pre", "code"}
                  THEN Written(1, Len(sels) + 1, i, OnCode(doc, i, funcName))
                  ELSE <<>>])
       \o Flatten([c \in 1..Len(sels) |->
             Flatten([i \in 1..Len(doc) |->
                IF Matches(doc, i, sels[c])
                THEN Written(1, c, i, OnSelector(doc, i, funcName))
                ELSE <<>>])])

\* The callbacks run element by element: for each element in document
\* order, every callback that matches it.
FirstPassDocumentOrder(doc, funcName) ==
    LET sels == selectors(funcName)
    IN Flatten([i \in 1..Len(doc) |->
          (IF doc[i].tag = "title" THEN Written(1, 0, i, OnTitle(doc, i)) ELSE <<>>)
          \o Flatten([c \in 1..Len(sels) |->
                IF Matches(doc, i, sels[c])
                THEN Written(1, c, i, OnSelector(doc, i, funcName))
                ELSE <<>>])
          \o (IF doc[i].tag \in {"pre", "code"}
              THEN Written(1, Len(sels) + 1, i, OnCode(doc, i, funcName))
              ELSE <<>>)])

\* colly runs the registered callbacks in registration order (title, the
\* selectors, "pre, code"), each over its matches in document order.
FirstPass(doc, funcName) ==
    LET sels == selectors(funcName)
    IN Flatten([i \in 1..Len(doc) |->
                  IF doc[i].tag = "title" THEN Written(1, 0, i, OnTitle(doc, i)) ELSE <<>>])
       \o Flatten([c \in 1..Len(sels) |->
             Flatten([i \in 1..Len(doc) |->
                IF Matches(doc, i, sels[c])
                THEN Written(1, c, i, OnSelector(doc, i, funcName))
                ELSE <<>>])])
       \o Flatten([i \in 1..Len(doc) |->
                  IF doc[i].tag \in {"pre", "code"}
                  THEN Written(1, Len(sels) + 1, i, OnCode(doc, i, funcName))
                  ELSE <<>>])

\* The second collector has one callback, on "*".
FallbackPass(doc, funcName) ==
    Flatten([i \in 1..Len(doc) |-> Written(2, 1, i, OnAny(doc, i, funcName))])

\* The calls of extractRelevantSection each pass makes.
HandedFirst(doc, funcName) ==
    { <<1, ci[1], ci[2]>> :
        ci \in { cj \in (1..Len(selectors(funcName))) \X (1..Len(doc)) :
                   /\ Matches(doc, cj[2], selectors(funcName)[cj[1]])
                   /\ SelectorHandsOver(doc, cj[2], funcName) } }

HandedSecond(doc, funcName) ==
    { <<2, 1, i>> : i \in { j \in 1..Len(doc) : AnyHandsOver(doc, j, funcName) } }

\* strings.Builder.String()
String(frags) == Flatten([k \in 1..Len(frags) |-> frags[k].s])

(***************************************************************************)
(* One call of ScrapeDocumentation (scraper.go:20-196).                    *)
(***************************************************************************)
VARIABLES
    pc,          \* position in ScrapeDocumentation
    docURL,      \* the docURL argument, by how it parses
    funcName,    \* the funcName argument: "" or the symbol "S"
    page,        \* the document the server returns (<<>> before the first fetch)
    content,     \* the strings.Builder, as the fragments written so far
    result,      \* the local variable result
    firstResult, \* the value result got at line 132
    collectors,  \* colly collectors created
    visits,      \* calls of Visit
    handling,    \* the collectors (1, 2) whose response still has callbacks to run
    invoked,     \* invocations of OnHTML callbacks
    ret,         \* the returned string
    err,         \* the returned error, "nil" for none
    probe,       \* the last direct call of the section extractor's functions
    verbose,     \* the verbose argument
    logged,      \* the lines written with log.Printf
    handed,      \* the calls of extractRelevantSection: <<pass, callback, node>>
    runs,        \* the outcomes of the earlier calls with the same arguments
    typegen,     \* the caller runTypeGen (cli.go:60-145)
    docgen       \* a run of generateProjectDocumentation (docgen/cli.go:200-325)

vars == <<pc, docURL, funcName, page, content, result, firstResult,
          collectors, visits, handling, invoked, ret, err, probe,
          verbose, logged, handed, runs, typegen, docgen>>

\* "absolute": an absolute URI; "path": an absolute path such as /docs/api;
\* "malformed": anything else.
URLKinds == {"absolute", "path", "malformed"}

\* url.ParseRequestURI (line 22) accepts an absolute URI or an absolute path.
ParseRequestURIFails(u) == u = "malformed"

\* Visit can only fetch a URL that has a scheme and a host.
Fetchable(u) == u = "absolute"

\* scraper.go:189
previewLimit == 200

\* The length in bytes an unrelated run of text "x" is taken to have; every
\* other token counts one byte.
TextRun == 120

Width(tok) == IF tok.t = "x" THEN TextRun ELSE 1

RECURSIVE Bytes(_)
Bytes(s) == IF s = <<>> THEN 0 ELSE Width(Head(s)) + Bytes(Tail(s))

\* s[:n], cut at the last token that still fits.
RECURSIVE Cut(_, _)
Cut(s, n) ==
    IF s = <<>> \/ Width(Head(s)) > n THEN <<>>
    ELSE <<Head(s)>> \o Cut(Tail(s), n - Width(Head(s)))

\* lines 188-191
Preview(res) ==
    IF Bytes(res) > previewLimit THEN Cut(res, previewLimit) \o <<Tok(0, "...")>> ELSE res

\* if verbose { log.Printf(...) } (lines 27-29, 137-139, 187-193)
Log(v, lines, line) == IF v THEN Append(lines, line) ELSE lines

\* The preview returned in place of the result.
ResultPreview(res, contentPreview) == contentPreview

\* line 195: return result, nil
Result(res, contentPreview) == res

\* runTypeGen is not running.
NoTypeGen ==
    [pc |-> "idle", steps |-> <<>>, docContent |-> <<>>,
     typeDefinitions |-> <<>>, aiCalls |-> 0,
     file0 |-> "absent", file |-> "absent", err |-> "nil"]

\* generateProjectDocumentation is not running.
NoDocGen == [pc |-> "idle"]

\* No direct call was made.
NoProbe == [node |-> 0, container |-> FALSE, section |-> <<>>, relevant |-> <<>>]

Init ==
    /\ pc = "start"
    /\ docURL \in URLKinds
    /\ funcName \in {"", "S"}
    /\ page = <<>>
    /\ content = <<>>
    /\ result = <<>>
    /\ firstResult = <<>>
    /\ collectors = 0
    /\ visits = 0
    /\ handling = {}
    /\ invoked = 0
    /\ ret = <<>>
    /\ err = "nil"
    /\ probe = NoProbe
    /\ verbose = FALSE
    /\ logged = <<>>
    /\ handed = {}
    /\ runs = <<>>
    /\ typegen = NoTypeGen
    /\ docgen = NoDocGen

\* The number of callback invocations of each pass.
FirstPassCalls(doc, f) ==
    Cardinality({i \in 1..Len(doc) : doc[i].tag = "title"})
    + Cardinality({ci \in (1..Len(selectors(f))) \X (1..Len(doc)) :
                     Matches(doc, ci[2], selectors(f)[ci[1]])})
    + Cardinality({i \in 1..Len(doc) : doc[i].tag \in {"pre", "code"}})

FallbackCalls(doc) == Len(doc)

\* lines 21-25
Validate ==
    /\ pc = "start"
    /\ IF ParseRequestURIFails(docURL)
       THEN /\ pc' = "done"
            /\ err' = "invalid URL"
            /\ logged' = logged
       ELSE /\ pc' = "validated"
            /\ err' = err
            /\ logged' = Log(verbose, logged, <<Tok(0, "Starting scraping")>>)
    /\ UNCHANGED <<docURL, funcName, page, content, result, firstResult,
                   collectors, visits, handling, invoked, ret, probe, verbose, handed, runs,
                   typegen, docgen>>

\* lines 31-121: the first collector and its callbacks
NewCollector ==
    /\ pc = "validated"
    /\ collectors' = collectors + 1
    /\ pc' = "registered"
    /\ UNCHANGED <<docURL, funcName, page, content, result, firstResult,
                   visits, handling, invoked, ret, err, probe, verbose, logged, handed, runs,
                   typegen, docgen>>

\* The string returned with a fetch error (lines 126, 170).
FetchErrorResultKeeps(res) == res

\* The string returned with a fetch error (lines 126, 170): return "", err
FetchErrorResult(res) == <<>>

\* lines 124-127: the first fetch fails
VisitFails ==
    /\ pc = "registered"
    /\ visits' = visits + 1
    /\ pc' = "done"
    /\ err' = "error visiting URL"
    /\ ret' = FetchErrorResult(String(content))
    /\ UNCHANGED <<docURL, funcName, page, content, result, firstResult,
                   collectors, handling, invoked, probe, verbose, logged, handed, runs,
                   typegen, docgen>>

\* line 124: the first fetch returns doc; its callbacks are to run
Visit(doc) ==
    /\ pc = "registered"
    /\ Fetchable(docURL)
    /\ visits' = visits + 1
    /\ page' = doc
    /\ handling' = handling \cup {1}
    /\ pc' = "visiting"
    /\ UNCHANGED <<docURL, funcName, content, result, firstResult, collectors,
                   invoked, ret, err, probe, verbose, logged, handed, runs,
                   typegen, docgen>>

\* lines 43-121: the callbacks of the first collector run over the response
Callbacks ==
    /\ 1 \in handling
    /\ content' = content \o FirstPass(page, funcName)
    /\ invoked' = invoked + FirstPassCalls(page, funcName)
    /\ handling' = handling \ {1}
    /\ handed' = handed \cup HandedFirst(page, funcName)
    /\ UNCHANGED <<pc, docURL, funcName, page, result, firstResult, collectors,
                   visits, ret, err, probe, verbose, logged, runs,
                   typegen, docgen>>

\* A Visit that returns while callbacks are still to run.
ReturnedAtOnce(h, c) == TRUE

\* The collectors are synchronous (no colly.Async at lines 32-38, 145-150):
\* Visit returns once the callbacks of collector c have run.
Returned(h, c) == c \notin h

\* lines 124-130: Visit and Wait return
Wait ==
    /\ pc = "visiting"
    /\ Returned(handling, 1)
    /\ pc' = "visited"
    /\ UNCHANGED <<docURL, funcName, page, content, result, firstResult,
                   collectors, visits, handling, invoked, ret, err, probe, verbose, logged, handed, runs,
                   typegen, docgen>>

\* The decision taken on emptiness alone.
NeedsSecondPassIfEmpty(doc, res, f) == f # "" /\ res = <<>>

\* The decision taken whenever a symbol was given.
NeedsSecondPassAlways(doc, res, f) == f # ""

\* The second pass skipped.
NeedsSecondPassNever(doc, res, f) == FALSE

\* line 136
NeedsSecondPass(doc, res, f) == f # "" /\ ~Contains(doc, res, f)

\* A reset that keeps what was written.
ResetKeeps(frags) == frags

\* strings.Builder.Reset() (line 142)
Reset(frags) == <<>>

\* lines 132-150: the fallback decision, the reset and the second collector
Evaluate ==
    /\ pc = "visited"
    /\ result' = String(content)
    /\ firstResult' = String(content)
    /\ IF NeedsSecondPass(page, String(content), funcName)
       THEN /\ content' = Reset(content)
            /\ collectors' = collectors + 1
            /\ pc' = "second"
            /\ logged' = Log(verbose, logged, <<Tok(0, "trying second pass")>>)
       ELSE /\ pc' = "final"
            /\ UNCHANGED <<content, collectors, logged>>
    /\ UNCHANGED <<docURL, funcName, page, visits, handling, invoked, ret, err,
                   probe, verbose, handed, runs,
                   typegen, docgen>>

\* lines 168-171: the second fetch fails
SecondVisitFails ==
    /\ pc = "second"
    /\ visits' = visits + 1
    /\ pc' = "done"
    /\ err' = "error in second visit to URL"
    /\ ret' = FetchErrorResult(result)
    /\ UNCHANGED <<docURL, funcName, page, content, result, firstResult,
                   collectors, handling, invoked, probe, verbose, logged, handed, runs,
                   typegen, docgen>>

\* line 168: the second fetch returns the page again; the wildcard callback
\* is to run
SecondVisit ==
    /\ pc = "second"
    /\ visits' = visits + 1
    /\ handling' = handling \cup {2}
    /\ pc' = "revisiting"
    /\ UNCHANGED <<docURL, funcName, page, content, result, firstResult,
                   collectors, invoked, ret, err, probe, verbose, logged, handed, runs,
                   typegen, docgen>>

\* lines 153-165: the wildcard callback runs over the response
SecondCallbacks ==
    /\ 2 \in handling
    /\ content' = content \o FallbackPass(page, funcName)
    /\ invoked' = invoked + FallbackCalls(page)
    /\ handling' = handling \ {2}
    /\ handed' = handed \cup HandedSecond(page, funcName)
    /\ UNCHANGED <<pc, docURL, funcName, page, result, firstResult, collectors,
                   visits, ret, err, probe, verbose, logged, runs,
                   typegen, docgen>>

\* lines 168-177: the second Visit and Wait return, result is updated
SecondWait ==
    /\ pc = "revisiting"
    /\ Returned(handling, 2)
    /\ result' = String(content)
    /\ pc' = "final"
    /\ UNCHANGED <<docURL, funcName, page, content, firstResult, collectors,
                   visits, handling, invoked, ret, err, probe, verbose, logged, handed, runs,
                   typegen, docgen>>

\* lines 180-195
Return ==
    /\ pc = "final"
    /\ IF result = <<>>
       THEN /\ err' = IF funcName # "" THEN "not found" ELSE "no content extracted"
            /\ ret' = <<>>
            /\ logged' = logged
       ELSE LET contentPreview == IF verbose THEN Preview(result) ELSE result
            IN /\ err' = "nil"
               /\ logged' = Log(verbose, logged, contentPreview)
               /\ ret' = Result(result, contentPreview)
    /\ pc' = "done"
    /\ UNCHANGED <<docURL, funcName, page, content, result, firstResult,
                   collectors, visits, handling, invoked, probe, verbose, handed, runs,
                   typegen, docgen>>

Next ==
    \/ Validate
    \/ NewCollector
    \/ VisitFails
    \/ \E doc \in Pages : Visit(doc)
    \/ Callbacks
    \/ Wait
    \/ Evaluate
    \/ SecondVisitFails
    \/ SecondVisit
    \/ SecondCallbacks
    \/ SecondWait
    \/ Return

Spec == Init /\ [][Next]_vars

(***************************************************************************)
(* The same call on pages without ids, classes or roles: a heading that    *)
(* names the symbol, or a paragraph, directly under body or inside a       *)
(* navigation, header, footer or aside element.                            *)
(***************************************************************************)
PlainWrappers == {"none", "nav", "header", "footer", "aside"}

PlainItems ==
    { <<lead>> \o rest : lead \in {"hS0", "px"},
                         rest \in {<<>>, <<"px">>, <<"px", "h2x">>, <<"h2x">>} }

PlainPages ==
    { Page(t, w, it) : t \in {"none", "x"}, w \in PlainWrappers, it \in PlainItems }

NextPlain ==
    \/ Validate
    \/ NewCollector
    \/ VisitFails
    \/ \E doc \in PlainPages : Visit(doc)
    \/ Callbacks
    \/ Wait
    \/ Evaluate
    \/ SecondVisitFails
    \/ SecondVisit
    \/ SecondCallbacks
    \/ SecondWait
    \/ Return

SpecPlain == Init /\ [][NextPlain]_vars

(***************************************************************************)
(* The same call on pages with one or two container elements under body,   *)
(* the second beside the first or inside it, each holding one item: main,  *)
(* article.docs (which two generic selectors match) and aside (which none  *)
(* matches).                                                               *)
(***************************************************************************)
ContainerKinds == {"main", "article.docs", "aside"}

LeafKinds == {"hS0", "px", "preS", "pre0", "tableS"}

ContainerNode(kind, par) ==
    CASE kind = "main"         -> Node("main", par, "", "", <<>>)
      [] kind = "article.docs" -> Node("article", par, "", "docs", <<>>)
      [] kind = "aside"        -> Node("aside", par, "", "", <<>>)

OneContainer(a, la) ==
    <<Node("html", 0, "", "", <<>>), Node("head", 1, "", "", <<>>),
      Node("body", 1, "", "", <<>>), ContainerNode(a, 3)>>
    \o ItemNodes(la, 4, 5)

TwoContainers(a, la, layout, b, lb) ==
    OneContainer(a, la)
    \o <<ContainerNode(b, IF layout = "nested" THEN 4 ELSE 3)>>
    \o ItemNodes(lb, 6, 7)

ContainerPages ==
    { OneContainer(a, la) : a \in ContainerKinds, la \in LeafKinds }
    \cup { TwoContainers(a, la, layout, b, lb) :
             a \in ContainerKinds, la \in LeafKinds,
             layout \in {"nested", "siblings"},
             b \in ContainerKinds, lb \in LeafKinds }

NextContainers ==
    \/ Validate
    \/ NewCollector
    \/ VisitFails
    \/ \E doc \in ContainerPages : Visit(doc)
    \/ Callbacks
    \/ Wait
    \/ Evaluate
    \/ SecondVisitFails
    \/ SecondVisit
    \/ SecondCallbacks
    \/ SecondWait
    \/ Return

SpecContainers == Init /\ [][NextContainers]_vars

(***************************************************************************)
(* ScrapeDocumentation called twice with the same docURL and funcName, the *)
(* verbose argument free in each call, the server returning the same page  *)
(* on every fetch.                                                         *)
(***************************************************************************)
TwicePages ==
    { TwoContainers(a, la, layout, b, "px") :
        a \in ContainerKinds, la \in {"hS0", "px", "preS"},
        layout \in {"nested", "siblings"}, b \in ContainerKinds }

InitTwice ==
    /\ pc = "start"
    /\ docURL \in URLKinds
    /\ funcName \in {"", "S"}
    /\ verbose \in BOOLEAN
    /\ page = <<>>
    /\ content = <<>>
    /\ result = <<>>
    /\ firstResult = <<>>
    /\ collectors = 0
    /\ visits = 0
    /\ handling = {}
    /\ invoked = 0
    /\ ret = <<>>
    /\ err = "nil"
    /\ probe = NoProbe
    /\ logged = <<>>
    /\ handed = {}
    /\ runs = <<>>
    /\ typegen = NoTypeGen
    /\ docgen = NoDocGen

\* The call has returned; it is made again with the same docURL and funcName.
Again ==
    /\ pc = "done"
    /\ runs = <<>>
    /\ runs' = <<[verbose |-> verbose, page |-> page, ret |-> ret, err |-> err,
                  visits |-> visits, collectors |-> collectors, logged |-> logged]>>
    /\ verbose' \in BOOLEAN
    /\ pc' = "start"
    /\ page' = <<>>
    /\ content' = <<>>
    /\ result' = <<>>
    /\ firstResult' = <<>>
    /\ collectors' = 0
    /\ visits' = 0
    /\ handling' = {}
    /\ invoked' = 0
    /\ ret' = <<>>
    /\ err' = "nil"
    /\ logged' = <<>>
    /\ handed' = {}
    /\ UNCHANGED <<docURL, funcName, probe, typegen, docgen>>

\* The server returns to the second call the page it returned to the first.
Served(doc) ==
    IF runs = <<>> THEN TRUE
    ELSE IF runs[1].page = <<>> THEN TRUE ELSE doc = runs[1].page

NextTwice ==
    \/ Validate
    \/ NewCollector
    \/ VisitFails
    \/ \E doc \in TwicePages : Served(doc) /\ Visit(doc)
    \/ Callbacks
    \/ Wait
    \/ Evaluate
    \/ SecondVisitFails
    \/ SecondVisit
    \/ SecondCallbacks
    \/ SecondWait
    \/ Return
    \/ Again

SpecTwice == InitTwice /\ [][NextTwice]_vars

(***************************************************************************)
(* runTypeGen (cli.go:60-145): the call of ScrapeDocumentation above, then *)
(* the AI client, the generation and the write of the output file.  The    *)
(* output file is "absent", "old" (left by an earlier run), "truncated" or *)
(* the text written to it.                                                 *)
(***************************************************************************)
InitTypeGen ==
    /\ pc = "start"
    /\ docURL \in URLKinds
    /\ funcName \in {"", "S"}
    /\ verbose \in BOOLEAN
    /\ page = <<>>
    /\ content = <<>>
    /\ result = <<>>
    /\ firstResult = <<>>
    /\ collectors = 0
    /\ visits = 0
    /\ handling = {}
    /\ invoked = 0
    /\ ret = <<>>
    /\ err = "nil"
    /\ probe = NoProbe
    /\ logged = <<>>
    /\ handed = {}
    /\ runs = <<>>
    /\ \E f \in {"absent", "old"} :
          typegen = [NoTypeGen EXCEPT !.pc = "scraping", !.file0 = f, !.file = f]
    /\ docgen = NoDocGen

\* A scrape taken to have succeeded whatever error it returned.
ScrapeFailedNever(e) == FALSE

\* cli.go:96: err != nil
ScrapeFailed(e) == e # "nil"

ScraperVars ==
    <<pc, docURL, funcName, page, content, result, firstResult, collectors,
      visits, handling, invoked, ret, err, probe, verbose, logged, handed, runs>>

\* cli.go:95-103: ScrapeDocumentation has returned
ScrapeReturns ==
    /\ typegen.pc = "scraping"
    /\ pc = "done"
    /\ typegen' =
          IF ScrapeFailed(err)
          THEN [typegen EXCEPT !.pc = "returned", !.steps = Append(@, "scrape"),
                               !.err = "error scraping documentation"]
          ELSE IF ret = <<>>
          THEN [typegen EXCEPT !.pc = "returned", !.steps = Append(@, "scrape"),
                               !.err = "no content extracted"]
          ELSE [typegen EXCEPT !.pc = "scraped", !.steps = Append(@, "scrape"),
                               !.docContent = ret]
    /\ UNCHANGED <<ScraperVars, docgen>>

\* cli.go:115-118: common.NewAIClient fails
NewAIClientFails ==
    /\ typegen.pc = "scraped"
    /\ typegen' = [typegen EXCEPT !.pc = "returned", !.steps = Append(@, "client"),
                                  !.err = "error creating AI client"]
    /\ UNCHANGED <<ScraperVars, docgen>>

\* cli.go:115-122: the client and the generator are created
NewAIClient ==
    /\ typegen.pc = "scraped"
    /\ typegen' = [typegen EXCEPT !.pc = "client", !.steps = Append(@, "client")]
    /\ UNCHANGED <<ScraperVars, docgen>>

\* cli.go:129-132: GenerateTypeDefinitions calls the model and fails
GenerateFails ==
    /\ typegen.pc = "client"
    /\ typegen' = [typegen EXCEPT !.pc = "returned", !.steps = Append(@, "generate"),
                                  !.aiCalls = @ + 1,
                                  !.err = "error generating type definitions"]
    /\ UNCHANGED <<ScraperVars, docgen>>

\* cli.go:129-139: GenerateTypeDefinitions returns definitions, possibly empty
Generate(typeDefinitions) ==
    /\ typegen.pc = "client"
    /\ typegen' = [typegen EXCEPT !.pc = "generated", !.steps = Append(@, "generate"),
                                  !.aiCalls = @ + 1,
                                  !.typeDefinitions = typeDefinitions]
    /\ UNCHANGED <<ScraperVars, docgen>>

\* cli.go:139-142: os.WriteFile fails, before or after truncating the file
WriteFileFails ==
    /\ typegen.pc = "generated"
    /\ \E f \in {typegen.file, "truncated"} :
          typegen' = [typegen EXCEPT !.pc = "returned", !.steps = Append(@, "write"),
                                    !.file = f,
                                    !.err = "error writing to output file"]
    /\ UNCHANGED <<ScraperVars, docgen>>

\* cli.go:139-148: the definitions are written and runTypeGen returns nil
WriteFile ==
    /\ typegen.pc = "generated"
    /\ typegen' = [typegen EXCEPT !.pc = "returned", !.steps = Append(@, "write"),
                                  !.file = <<"written">> \o typegen.typeDefinitions]
    /\ UNCHANGED <<ScraperVars, docgen>>

NextTypeGen ==
    \/ Validate
    \/ NewCollector
    \/ VisitFails
    \/ \E doc \in PlainPages : Visit(doc)
    \/ Callbacks
    \/ Wait
    \/ Evaluate
    \/ SecondVisitFails
    \/ SecondVisit
    \/ SecondCallbacks
    \/ SecondWait
    \/ Return
    \/ ScrapeReturns
    \/ NewAIClientFails
    \/ NewAIClient
    \/ GenerateFails
    \/ \E typeDefinitions \in {<<>>, <<"definitions">>} : Generate(typeDefinitions)
    \/ WriteFileFails
    \/ WriteFile

SpecTypeGen == InitTypeGen /\ [][NextTypeGen]_vars

(***************************************************************************)
(* generateProjectDocumentation (docgen/cli.go:198-322) and                *)
(* createCombinedDocumentation (332-404).  A path is the sequence of its   *)
(* pieces, separators included: a/b.go is <<"a", "/", "b", ".go">>.  The   *)
(* documentation the model generates for a file is named after the file.   *)
(***************************************************************************)
\* The files a project may hold, in the lexical order filepath.WalkDir visits
\* them (README.md, a/b.go, a.go, a_b.go, docs/x.go).
WalkOrder ==
    << <<"README", ".md">>,
       <<"a", "/", "b", ".go">>,
       <<"a", ".go">>,
       <<"a", "_", "b", ".go">>,
       <<"docs", "/", "x", ".go">> >>

\* cli.go:407-429
isSourceCodeFile(ext) ==
    ext \in {".go", ".js", ".ts", ".tsx", ".py", ".java", ".c", ".cpp", ".cs",
             ".rs", ".rb", ".php", ".swift", ".kt", ".sh"}

\* filepath.Ext
Ext(path) == path[Len(path)]

\* strings.HasPrefix(rel, "docs/") || strings.HasPrefix(rel, ".git/")
Skipped(rel) == Len(rel) >= 2 /\ rel[1] \in {"docs", ".git"} /\ rel[2] = "/"

\* The position of the last separator of the path, 0 when it has none.
LastSlash(rel) ==
    LET at == {i \in 1..Len(rel) : rel[i] = "/"}
    IN  IF at = {} THEN 0 ELSE CHOOSE i \in at : \A j \in at : j <= i

\* filepath.Dir, with "." renamed as line 349-351 does
Dir(rel) == IF LastSlash(rel) = 0 THEN <<"Root">> ELSE SubSeq(rel, 1, LastSlash(rel) - 1)

\* filepath.Base
Base(rel) == SubSeq(rel, LastSlash(rel) + 1, Len(rel))

\* cli.go:265: strings.ReplaceAll(relPath, "/", "_") + ".md"
DocName(relPath) ==
    [i \in 1..Len(relPath) |-> IF relPath[i] = "/" THEN "_" ELSE relPath[i]] \o <<".md">>

\* cli.go:216-242: the source files the walk collects, in walk order
RECURSIVE Walk(_, _)
Walk(project, i) ==
    IF i > Len(WalkOrder) THEN <<>>
    ELSE IF /\ WalkOrder[i] \in project
            /\ ~Skipped(WalkOrder[i])
            /\ isSourceCodeFile(Ext(WalkOrder[i]))
         THEN <<WalkOrder[i]>> \o Walk(project, i + 1)
         ELSE Walk(project, i + 1)

\* cli.go:346-353: the files of one directory, in the order of fileInfos
RECURSIVE FilesOf(_, _)
FilesOf(dir, fileInfos) ==
    IF fileInfos = <<>> THEN <<>>
    ELSE (IF Dir(Head(fileInfos).RelativePath) = dir THEN <<Head(fileInfos)>> ELSE <<>>)
         \o FilesOf(dir, Tail(fileInfos))

\* The orders in which a range over the map dirMap may yield its keys.
Orders(dirs) ==
    {o \in [1..Cardinality(dirs) -> dirs] : \A i, j \in DOMAIN o : o[i] = o[j] => i = j}

\* cli.go:381-400: the directory sections, each with a header per file and
\* what the file's DocPath holds when it is read
Sections(order, fileInfos, docs) ==
    [k \in DOMAIN order |->
        [dir   |-> order[k],
         files |-> LET fs == FilesOf(order[k], fileInfos)
                   IN  [n \in DOMAIN fs |->
                           [header  |-> Base(fs[n].RelativePath),
                            content |-> docs[fs[n].DocPath]]]]]

InitDocGen ==
    /\ pc = "idle"
    /\ docURL = "valid"
    /\ funcName = ""
    /\ verbose = FALSE
    /\ page = <<>>
    /\ content = <<>>
    /\ result = <<>>
    /\ firstResult = <<>>
    /\ collectors = 0
    /\ visits = 0
    /\ handling = {}
    /\ invoked = 0
    /\ ret = <<>>
    /\ err = "nil"
    /\ probe = NoProbe
    /\ logged = <<>>
    /\ handed = {}
    /\ runs = <<>>
    /\ typegen = NoTypeGen
    /\ \E project \in SUBSET {WalkOrder[i] : i \in DOMAIN WalkOrder} :
          docgen = [pc |-> "start", project |-> project, codeFiles |-> <<>>,
                    file |-> 0, docs |-> <<>>, fileInfos |-> <<>>,
                    warnings |-> <<>>,
                    combined |-> [written |-> FALSE, sections |-> <<>>],
                    err |-> "nil"]

\* cli.go:210-212: os.MkdirAll fails
MkdirAllFails ==
    /\ docgen.pc = "start"
    /\ docgen' = [docgen EXCEPT !.pc = "returned",
                                !.err = "error creating docs directory"]
    /\ UNCHANGED <<ScraperVars, typegen>>

\* cli.go:216-246: the walk fails
WalkDirFails ==
    /\ docgen.pc = "start"
    /\ docgen' = [docgen EXCEPT !.pc = "returned", !.err = "error walking directory"]
    /\ UNCHANGED <<ScraperVars, typegen>>

\* cli.go:210-257: the docs directory is there and the walk has collected
\* the source files
WalkDir ==
    /\ docgen.pc = "start"
    /\ LET codeFiles == Walk(docgen.project, 1)
       IN  docgen' =
             IF Len(codeFiles) = 0
             THEN [docgen EXCEPT !.pc = "returned",
                                 !.err = "no source code files found"]
             ELSE [docgen EXCEPT !.pc = "files", !.codeFiles = codeFiles, !.file = 1]
    /\ UNCHANGED <<ScraperVars, typegen>>

\* The loop of lines 258-303 is at one of the collected files.
AtFile == docgen.pc = "files" /\ docgen.file <= Len(docgen.codeFiles)

\* cli.go:272-276: the source cannot be read; warning, continue
ReadFileFails ==
    /\ AtFile
    /\ docgen' = [docgen EXCEPT !.warnings = Append(@, "error reading file"),
                                !.file = @ + 1]
    /\ UNCHANGED <<ScraperVars, typegen>>

\* cli.go:280-284: the generator fails; warning, continue
GenerateDocumentationFails ==
    /\ AtFile
    /\ docgen' = [docgen EXCEPT !.warnings = Append(@, "error generating documentation"),
                                !.file = @ + 1]
    /\ UNCHANGED <<ScraperVars, typegen>>

\* cli.go:287-291: the documentation file cannot be written; warning, continue
WriteDocFails ==
    /\ AtFile
    /\ docgen' = [docgen EXCEPT !.warnings = Append(@, "error writing documentation"),
                                !.file = @ + 1]
    /\ UNCHANGED <<ScraperVars, typegen>>

\* cli.go:259-302: the file is read, documented, its documentation written
\* to outputPath and its FileDocInfo appended
DocumentFile ==
    /\ AtFile
    /\ LET relPath    == docgen.codeFiles[docgen.file]
           outputPath == DocName(relPath)
       IN  docgen' = [docgen EXCEPT
               !.docs = (outputPath :> [of |-> relPath]) @@ @,
               !.fileInfos = Append(@, [RelativePath |-> relPath,
                                        DocPath |-> outputPath]),
               !.file = @ + 1]
    /\ UNCHANGED <<ScraperVars, typegen>>

\* The loop of lines 258-303 has ended.
AfterFiles == docgen.pc = "files" /\ docgen.file > Len(docgen.codeFiles)

\* cli.go:388-391: a documentation file cannot be read back
CombineReadFails ==
    /\ AfterFiles
    /\ docgen.fileInfos # <<>>
    /\ docgen' = [docgen EXCEPT !.pc = "returned",
                                !.err = "error creating combined documentation"]
    /\ UNCHANGED <<ScraperVars, typegen>>

\* cli.go:403, 311-313: the combined file cannot be written
CombineWriteFails ==
    /\ AfterFiles
    /\ docgen' = [docgen EXCEPT !.pc = "returned",
                                !.err = "error creating combined documentation"]
    /\ UNCHANGED <<ScraperVars, typegen>>

\* cli.go:310-321, 332-404: the combined file is written and the run
\* returns nil
createCombinedDocumentation ==
    /\ AfterFiles
    /\ LET dirs == {Dir(docgen.fileInfos[i].RelativePath) :
                        i \in DOMAIN docgen.fileInfos}
       IN  \E order \in Orders(dirs) :
              docgen' = [docgen EXCEPT
                  !.pc = "returned",
                  !.combined = [written  |-> TRUE,
                                 sections |-> Sections(order, docgen.fileInfos,
                                                       docgen.docs)]]
    /\ UNCHANGED <<ScraperVars, typegen>>

NextDocGen ==
    \/ MkdirAllFails
    \/ WalkDirFails
    \/ WalkDir
    \/ ReadFileFails
    \/ GenerateDocumentationFails
    \/ WriteDocFails
    \/ DocumentFile
    \/ CombineReadFails
    \/ CombineWriteFails
    \/ createCombinedDocumentation

SpecDocGen == InitDocGen /\ [][NextDocGen]_vars

(***************************************************************************)
(* Direct calls of isFunctionContainer, extractFunctionSection and         *)
(* extractRelevantSection (scraper.go:199-340) on the elements of small    *)
(* documents: one element carrying one attribute; one element with up to   *)
(* MaxChildren children; a heading under up to MaxNest nested elements.    *)
(***************************************************************************)
\* Largest number of children of the element of a tree document.
MaxChildren == 2

\* Largest number of elements nested between the root and the heading.
MaxNest == 4

\* An element with one attribute set.
Elem(tag, par, slot, val, txt) ==
    [Node(tag, par, "", "", txt) EXCEPT ![slot] = val]

AttrSlots == {"id", "name", "dataFunction", "dataMethod"}

AttrValues == SymForms \cup {"", "S^", "S^-method", "other"}

Shell == <<Node("html", 0, "", "", <<>>), Node("body", 1, "", "", <<>>)>>

AttrPages ==
    { Shell \o <<Elem(tag, 2, slot, val, txt)>> :
        tag \in {"p", "div", "span"}, slot \in AttrSlots, val \in AttrValues,
        txt \in {<<"x">>, <<"S">>, <<"x", "S">>} }

ChildKinds == {"h3S", "h3xS", "preS", "codeS", "tableS", "px"}

ChildNode(kind, par) ==
    CASE kind = "h3S"    -> Node("h3", par, "", "", <<" ", "S", " ">>)
      [] kind = "h3xS"   -> Node("h3", par, "", "", <<"x", "S">>)
      [] kind = "preS"   -> Node("pre", par, "", "", <<"x", "S">>)
      [] kind = "codeS"  -> Node("code", par, "", "", <<"S">>)
      [] kind = "tableS" -> Node("table", par, "", "", <<"S", "x">>)
      [] kind = "px"     -> Node("p", par, "", "", <<"x">>)

TreePages ==
    { Shell \o <<Node(tag, 2, id, "", <<>>)>>
            \o [k \in 1..Len(ch) |-> ChildNode(ch[k], 3)] :
        tag \in {"div", "section", "article", "ul", "main"},
        id \in {"", "S-method"},
        ch \in UNION { [1..n -> ChildKinds] : n \in 1..MaxChildren } }

NestPages ==
    { Shell \o <<Node("main", 2, "", "", <<>>)>>
            \o [k \in 1..n |-> Node("aside", 2 + k, "", "", <<>>)]
            \o <<Node("h2", 3 + n, "", "", <<"S">>),
                 Node("p", 3 + n, "", "", <<"x">>)>> :
        n \in 0..MaxNest }

ExtractorPages == AttrPages \cup TreePages \cup NestPages

InitExtractor ==
    /\ pc = "extractor"
    /\ docURL = "absolute"
    /\ funcName = "S"
    /\ page = <<>>
    /\ content = <<>>
    /\ result = <<>>
    /\ firstResult = <<>>
    /\ collectors = 0
    /\ visits = 0
    /\ handling = {}
    /\ invoked = 0
    /\ ret = <<>>
    /\ err = "nil"
    /\ probe = NoProbe
    /\ verbose = FALSE
    /\ logged = <<>>
    /\ handed = {}
    /\ runs = <<>>
    /\ typegen = NoTypeGen
    /\ docgen = NoDocGen

\* The three functions called on element i of doc.
Probe(doc, i) ==
    /\ pc = "extractor"
    /\ probe = NoProbe
    /\ page' = doc
    /\ probe' = [node      |-> i,
                 container |-> isFunctionContainer(doc, i, funcName),
                 section   |-> extractFunctionSection(doc, i, funcName, 0),
                 relevant  |-> extractRelevantSection(doc, i, funcName)]
    /\ UNCHANGED <<pc, docURL, funcName, content, result, firstResult,
                   collectors, visits, handling, invoked, ret, err,
                   verbose, logged, handed, runs,
                   typegen, docgen>>

NextExtractor ==
    \E doc \in ExtractorPages : \E i \in 1..Len(doc) : Probe(doc, i)

SpecExtractor == InitExtractor /\ [][NextExtractor]_vars

(***************************************************************************)
(* Properties                                                              *)
(***************************************************************************)
\* The headings of doc whose text contains the symbol.
SectionHeads(doc, f) ==
    { h \in 1..Len(doc) : isHeadingElement(doc, h) /\ Contains(doc, Text(doc, h), f) }

\* The following siblings of h that are headings of the same or a shallower level.
Boundaries(doc, h) ==
    { b \in (h + 1)..Len(doc) :
         /\ doc[b].par = doc[h].par
         /\ isHeadingElement(doc, b)
         /\ getHeadingLevel(doc, b) <= getHeadingLevel(doc, h) }

FollowingSiblings(doc, h) == { j \in (h + 1)..Len(doc) : doc[j].par = doc[h].par }

\* The following siblings of h before its first boundary.
InSection(doc, h) ==
    { j \in FollowingSiblings(doc, h) : \A b \in Boundaries(doc, h) : j < b }

\* Does token tok come from node j or from inside it?
From(doc, tok, j) == tok.n # 0 /\ (tok.n = j \/ IsAncestor(doc, j, tok.n))

\* The tokens of s that come from node j or from inside it, in order.
Part(doc, s, j) == SelectSeq(s, LAMBDA tok : From(doc, tok, j))

\* C1: on a heading H of level L whose text contains the symbol,
\* extractFunctionSection returns H, then the content of each following
\* sibling of H in document order, up to and excluding the first following
\* sibling that is a heading of level <= L; it returns nothing of that
\* heading or of a later sibling, and a sibling heading of level > L does not
\* end the walk.
C1_SectionBoundary ==
    page # <<>> =>
    \A h \in SectionHeads(page, funcName) :
       LET out == extractFunctionSection(page, h, funcName, 0)
       IN /\ out = <<Tok(h, "<h")>> \o Html(page, h) \o <<Tok(h, "</"), NL>>
                   \o Flatten([j \in 1..Len(page) |->
                                 IF j \in InSection(page, h)
                                 THEN Html(page, j) \o <<NL>> ELSE <<>>])
          /\ \A j \in FollowingSiblings(page, h) \ InSection(page, h) :
                Part(page, out, j) = <<>>
          /\ \A j \in InSection(page, h) : Part(page, out, j) = Html(page, j)

\* C1 happens: a call that returned a section in which a deeper heading was
\* walked over and a boundary heading ended the walk.
C1_Witness ==
    /\ pc = "done" /\ err = "nil" /\ funcName = "S"
    /\ \E h \in SectionHeads(page, funcName) :
          /\ \E j \in InSection(page, h) : isHeadingElement(page, j)
          /\ Boundaries(page, h) # {}
          /\ \E k \in 1..Len(ret) : ret[k] = Tok(h, "<h")

\* The call got a page and was not cut short by a failed fetch.
Extracted ==
    /\ pc = "done"
    /\ err \notin {"invalid URL", "error visiting URL", "error in second visit to URL"}

Occurs(s, tok) == \E k \in 1..Len(s) : s[k] = tok

CoversAll(s, part) == \A k \in 1..Len(part) : Occurs(s, part[k])

\* The headings the end-to-end scenario is about: id and text equal to the
\* symbol, sibling content after it, then a boundary heading.
ScenarioHeads(doc) ==
    { h \in 1..Len(doc) :
         /\ isHeadingElement(doc, h)
         /\ doc[h].id = "S"
         /\ EqualsSym(TrimSpace(Text(doc, h)))
         /\ InSection(doc, h) # {}
         /\ Boundaries(doc, h) # {} }

FirstBoundary(doc, h) ==
    CHOOSE b \in Boundaries(doc, h) : \A c \in Boundaries(doc, h) : b <= c

\* s covers heading h and its section, and holds nothing of the boundary
\* heading or of any node after it.
SectionOnly(doc, s, h) ==
    /\ Occurs(s, Tok(h, "<h"))
    /\ CoversAll(s, Html(doc, h))
    /\ \A j \in InSection(doc, h) : CoversAll(s, Html(doc, j))
    /\ \A k \in 1..Len(s) : s[k].n < FirstBoundary(doc, h)

\* Does node n mention the symbol, in its text or in an attribute?
Mentions(doc, n, f) == Contains(doc, Text(doc, n), f) \/ TagSpellsSym(doc, n)

FirstPassFailed ==
    firstResult = <<>> \/ (funcName # "" /\ ~Contains(page, firstResult, funcName))

\* C3 as stated: for every symbol, empty or not, a first pass that ends with
\* an empty buffer, or with one that lacks the non-empty symbol, is followed
\* by the fallback pass before the call returns.
C3_FallbackForAnySymbol ==
    (pc = "done" /\ page # <<>> /\ FirstPassFailed) => visits = 2

\* C3, amended: when the symbol is non-empty, a first pass that ends with an
\* empty buffer or with one that lacks the symbol is followed by the fallback
\* pass before the call returns, also when the first pass extracted a
\* container; with an empty symbol the fallback pass is never run.
C3_FallbackMandatory ==
    /\ (pc \in {"final", "done"} /\ page # <<>> /\ funcName # "" /\ FirstPassFailed)
          => collectors = 2 /\ visits = 2
    /\ funcName = "" => collectors <= 1 /\ visits <= 1 /\ pc # "second"

\* C3 happens: the first pass extracted a container matched through its id
\* whose text lacks the literal symbol, and the fallback pass ran.
C3_Witness ==
    /\ pc = "done" /\ funcName = "S" /\ visits = 2
    /\ firstResult # <<>>
    /\ \E k \in 1..Len(firstResult) :
          firstResult[k].n # 0 /\ page[firstResult[k].n].tag = "b"

\* C4: the fallback pass starts only after a first pass that completed
\* without a fetch error and whose buffer was empty or lacked the non-empty
\* symbol; when the first-pass buffer contains the symbol, or the symbol is
\* empty and the buffer is not, there is no second collector and no second
\* fetch.
C4_FallbackOnlyWhenNeeded ==
    /\ (collectors = 2 \/ visits = 2 \/ pc = "second")
          => /\ page # <<>>
             /\ err \in {"nil", "error in second visit to URL", "not found"}
             /\ FirstPassFailed
    /\ ( /\ pc \in {"final", "done"} /\ page # <<>>
         /\ \/ funcName # "" /\ Contains(page, firstResult, funcName)
            \/ funcName = "" /\ firstResult # <<>> )
          => collectors = 1 /\ visits = 1

\* C4 happens: a first pass that found the symbol, and a call that returned
\* after one fetch.
C4_Witness ==
    /\ pc = "done" /\ err = "nil" /\ funcName = "S"
    /\ Contains(page, firstResult, funcName)
    /\ visits = 1

\* C5: the fallback pass starts from an empty buffer, and the result of a
\* call that ran it is built from the fragments of the fallback pass alone.
C5_FallbackStartsEmpty ==
    /\ pc = "second" => content = <<>>
    /\ (pc \in {"final", "done"} /\ visits = 2 /\ err # "error in second visit to URL")
          => /\ \A k \in 1..Len(content) : content[k].p = 2
             /\ result = String(content)
             /\ (pc = "done" /\ err = "nil") => ret = String(content)

\* C5 happens: the first pass wrote a title line, the fallback pass ran and
\* the call returned what the fallback pass extracted.
C5_Witness ==
    /\ pc = "done" /\ err = "nil" /\ visits = 2
    /\ Occurs(firstResult, Tok(0, "# "))
    /\ ret # <<>>

\* C6 as stated: every call ends with an error and an empty string, or with
\* no error and a non-empty string that contains the non-empty symbol.
C6_NoPartialSuccess ==
    pc = "done" =>
       \/ err # "nil" /\ ret = <<>>
       \/ /\ err = "nil" /\ ret # <<>>
          /\ funcName # "" => Contains(page, ret, funcName)

\* C7 as stated: a final buffer that is empty once trimmed makes the call
\* fail, with the symbol-not-found error when a symbol was given and the
\* no-content error otherwise.
C7_BlankBufferFails ==
    (Extracted /\ TrimSpace(result) = <<>>) =>
       /\ err = IF funcName # "" THEN "not found" ELSE "no content extracted"
       /\ ret = <<>>

\* No node of doc matches a first-pass selector.
NoSelectorMatch(doc, f) ==
    \A i \in 1..Len(doc) : \A c \in 1..Len(selectors(f)) : ~Matches(doc, i, selectors(f)[c])

\* The wildcard callback of the fallback pass accepts some node of doc.
FallbackAccepts(doc, f) ==
    \E i \in 1..Len(doc) : Contains(doc, Text(doc, i), f) /\ isContentElement(doc[i].tag)

NotFoundError(f) == IF f # "" THEN "not found" ELSE "no content extracted"

\* C8 as stated: a page on which no first-pass selector matches and on which
\* the fallback pass accepts no node makes the call fail, whatever else the
\* page holds.
C8_FailsWhateverElse ==
    (Extracted /\ NoSelectorMatch(page, funcName) /\ ~FallbackAccepts(page, funcName))
       => err = NotFoundError(funcName) /\ ret = <<>>

\* C8, amended: such a page makes the call fail provided it has no title
\* element whose text contains the symbol (no title element at all when the
\* symbol is empty) and, when the symbol is empty, no pre or code element
\* with text.
C8_FailsWithoutTitleOrCode ==
    ( /\ Extracted
      /\ NoSelectorMatch(page, funcName) /\ ~FallbackAccepts(page, funcName)
      /\ \A i \in 1..Len(page) :
            /\ page[i].tag = "title" => ~Contains(page, Text(page, i), funcName)
            /\ (funcName = "" /\ page[i].tag \in {"pre", "code"}) => Text(page, i) = <<>> )
       => err = NotFoundError(funcName) /\ ret = <<>>

\* C8 happens: a page with a title that does not name the symbol, no
\* container and nothing the fallback accepts, and the call failed.
C8_Witness ==
    /\ Extracted /\ funcName = "S" /\ visits = 2
    /\ NoSelectorMatch(page, funcName) /\ ~FallbackAccepts(page, funcName)
    /\ \E i \in 1..Len(page) : page[i].tag = "title"
    /\ \E i \in 1..Len(page) : page[i].tag = "p"
    /\ err = "not found"

\* C9 as stated: a successful result neither starts nor ends with white space.
C9_ResultTrimmed ==
    (pc = "done" /\ err = "nil") =>
       /\ ret = TrimSpace(result)
       /\ ret # <<>> => ~IsSpace(ret[1]) /\ ~IsSpace(ret[Len(ret)])

\* C10 as stated: a URL that is not an absolute, well-formed URI makes the
\* call return the invalid-URL error without a collector, a fetch or a
\* callback; and no fetch happens before the URL was validated.
C10_InvalidURLFailsFirst ==
    /\ (pc = "done" /\ docURL # "absolute")
          => err = "invalid URL" /\ collectors = 0 /\ visits = 0 /\ invoked = 0
    /\ visits > 0 => ~ParseRequestURIFails(docURL) /\ pc # "start"

\* C11: one call issues at most two fetches and never overlaps them: the
\* fallback's fetch starts only after the first fetch has returned and every
\* first-pass callback has run, so no first-pass callback writes after the
\* reset or between the writes of the fallback's callback.
C11_FetchesNeverOverlap ==
    /\ visits <= 2
    /\ handling # {1, 2}
    /\ (collectors = 2 => 1 \notin handling)
    /\ (visits = 2 => /\ page # <<>>
                      /\ invoked >= FirstPassCalls(page, funcName))
    /\ (collectors = 2 => \A k \in 1..Len(content) : content[k].p = 2)

C11_Witness ==
    /\ pc = "done" /\ err = "nil" /\ visits = 2
    /\ FirstPass(page, funcName) # <<>>
    /\ content # <<>>
    /\ invoked = FirstPassCalls(page, funcName) + FallbackCalls(page)

\* C12: a fetch failure is final: the call returns the fetch error with the
\* empty string, makes no further fetch and returns none of the content
\* accumulated so far; the fallback is attempted only after a first pass whose
\* fetch succeeded.
C12_FetchFailureIsFinal ==
    /\ (pc = "done" /\ err = "error visiting URL")
         => /\ ret = <<>>
            /\ visits = 1 /\ collectors = 1
            /\ invoked = 0 /\ handling = {}
    /\ (pc = "done" /\ err = "error in second visit to URL")
         => /\ ret = <<>>
            /\ visits = 2 /\ collectors = 2
            /\ page # <<>> /\ handling = {}
            /\ invoked = FirstPassCalls(page, funcName)
    /\ (collectors = 2 => page # <<>>)

C12_Witness ==
    /\ pc = "done" /\ err = "error in second visit to URL"
    /\ firstResult # <<>>
    /\ ret = <<>>

\* The words of a string.
Words(s) == [k \in 1..Len(s) |-> s[k].t]

\* Does element i hold a heading whose trimmed text is exactly the symbol?
ExactHeadingInside(doc, i) ==
    \E h \in Descendants(doc, i) :
       /\ isHeadingElement(doc, h)
       /\ Words(TrimSpace(Text(doc, h))) \in {<<"S">>, <<"Sa", "Sb">>}

\* Does one of the four attributes of element i equal the symbol or a
\* decorated form of it, as written or lower-cased?
SymbolAttribute(doc, i) ==
    \E slot \in AttrSlots : doc[i][slot] \in SymForms \cup {"S^", "S^-method"}

\* C13 as stated: isFunctionContainer rejects every div, section or article
\* that holds no heading whose trimmed text is exactly the symbol, wherever
\* else the symbol occurs.
C13_RejectsWithoutExactHeading ==
    ( /\ probe.node # 0
      /\ page[probe.node].tag \in {"div", "section", "article"}
      /\ ~ExactHeadingInside(page, probe.node) )
    => ~probe.container

\* C13, amended: isFunctionContainer rejects every div, section or article
\* that holds no heading whose trimmed text is exactly the symbol and carries
\* no id, name, data-function or data-method derived from the symbol, even
\* when the symbol occurs elsewhere in its text or as a proper substring of
\* the text of a heading inside it.
C13_RejectsWithoutHeadingOrAttribute ==
    ( /\ probe.node # 0
      /\ page[probe.node].tag \in {"div", "section", "article"}
      /\ ~ExactHeadingInside(page, probe.node)
      /\ ~SymbolAttribute(page, probe.node) )
    => ~probe.container

C13_Witness ==
    /\ probe.node # 0
    /\ page[probe.node].tag = "div"
    /\ ~SymbolAttribute(page, probe.node)
    /\ ~ExactHeadingInside(page, probe.node)
    /\ \E h \in Descendants(page, probe.node) :
          /\ isHeadingElement(page, h)
          /\ Contains(page, Text(page, h), funcName)
    /\ \E c \in Descendants(page, probe.node) :
          /\ page[c].tag = "pre"
          /\ Contains(page, Text(page, c), funcName)
    /\ ~probe.container

\* C14 as stated: an element one of whose id, name, data-function and
\* data-method equals the symbol or a decorated form, as written or
\* lower-cased, is a function container whatever its tag and its text.
C14_AttributeAloneSuffices ==
    (probe.node # 0 /\ SymbolAttribute(page, probe.node)) => probe.container

\* C14, amended: an element whose text contains the symbol and one of whose
\* id, name, data-function and data-method equals the symbol or a decorated
\* form, as written or lower-cased, is a function container whatever its tag.
C14_AttributeAndTextSuffice ==
    ( /\ probe.node # 0
      /\ SymbolAttribute(page, probe.node)
      /\ Contains(page, Text(page, probe.node), funcName) )
    => probe.container

C14_Witness ==
    /\ probe.node # 0
    /\ page[probe.node].tag = "span"
    /\ page[probe.node].dataMethod = "function-S"
    /\ Contains(page, Text(page, probe.node), funcName)
    /\ probe.container

\* The pre and code elements inside element i whose text contains the symbol.
CodeMentions(doc, i, f) ==
    { c \in Descendants(doc, i) :
         doc[c].tag \in {"pre", "code"} /\ Contains(doc, Text(doc, c), f) }

\* A direct call was made on a function container that is not a heading.
ProbedNonHeadingContainer ==
    /\ probe.node # 0
    /\ probe.container
    /\ ~isHeadingElement(page, probe.node)

\* C15 as stated: on a function container that is not a heading the output
\* of extractRelevantSection is the element's entire content, also when the
\* element holds pre or code elements that mention the symbol.
C15_NonHeadingContainerVerbatim ==
    ProbedNonHeadingContainer
    => probe.relevant \in {Html(page, probe.node), Html(page, probe.node) \o <<NL>>}

\* C15, amended: on a function container that is not a heading and holds no
\* pre or code element mentioning the symbol, the output is the element's
\* entire inner HTML (followed by a newline when the element is a table, ul
\* or ol); when it holds such pre or code elements and is not a table, ul or
\* ol, the output is only their inner HTML, each followed by a newline.
C15_VerbatimWithoutCode ==
    ProbedNonHeadingContainer =>
    LET i == probe.node
        code == CodeMentions(page, i, funcName)
        list == page[i].tag \in {"table", "ul", "ol"}
    IN /\ code = {} =>
            probe.relevant = Html(page, i) \o (IF list THEN <<NL>> ELSE <<>>)
       /\ (code # {} /\ ~list) =>
            /\ \A c \in code : Part(page, probe.relevant, c) = Html(page, c)
            /\ \A k \in 1..Len(probe.relevant) :
                  \/ probe.relevant[k] = NL
                  \/ \E c \in code : From(page, probe.relevant[k], c)
            /\ probe.relevant # Html(page, i)

C15_Witness ==
    /\ ProbedNonHeadingContainer
    /\ page[probe.node].tag = "div"
    /\ ExactHeadingInside(page, probe.node)
    /\ CodeMentions(page, probe.node, funcName) = {}
    /\ Cardinality(Descendants(page, probe.node)) > 1
    /\ probe.relevant = Html(page, probe.node)

\* The number of levels element j lies below its ancestor anc.
RECURSIVE Depth(_, _, _)
Depth(doc, anc, j) ==
    IF j = anc \/ doc[j].par = 0 THEN 0 ELSE 1 + Depth(doc, anc, doc[j].par)

\* C16: a call of extractRelevantSection on an element that is not itself a
\* function container takes nothing from an element more than maxDepth
\* levels below it.
C16_DepthBound ==
    (probe.node # 0 /\ ~probe.container) =>
    \A c \in Descendants(page, probe.node) :
       Depth(page, probe.node, c) > maxDepth => Part(page, probe.relevant, c) = <<>>

\* The elements of the region extractFunctionSection matched on element i: on
\* a heading that mentions the symbol, the following siblings before the
\* boundary and what they hold; otherwise what element i holds.
Region(doc, i, f) ==
    IF isHeadingElement(doc, i) /\ Contains(doc, Text(doc, i), f)
    THEN { j \in 1..Len(doc) :
             \E sib \in InSection(doc, i) : j = sib \/ IsAncestor(doc, sib, j) }
    ELSE Descendants(doc, i)

\* C17 as stated: on the heading path and on the other path alike, the
\* output of extractFunctionSection holds the content of every pre, code,
\* table and list of the matched region whose text contains the symbol.
C17_ScanOnEveryPath ==
    (probe.node # 0 /\ probe.container) =>
    \A c \in Region(page, probe.node, funcName) :
       ( /\ page[c].tag \in {"pre", "code", "table", "ul", "ol"}
         /\ Contains(page, Text(page, c), funcName) )
       => Part(page, probe.section, c) = Html(page, c)

\* C17, amended: on an element that is not a heading mentioning the symbol,
\* the output of extractFunctionSection is the inner HTML of each pre and
\* code inside it whose text contains the symbol, each followed by a newline,
\* and then the element's own inner HTML and a newline when the element is
\* itself a table, ul or ol whose text contains the symbol; a table or list
\* inside the element is not scanned.  On the heading path there is no scan:
\* a pre, code, table or list of the section is in the output only as part
\* of the sibling walk.
C17_ScanOffHeadingPath ==
    (probe.node # 0 /\ probe.container) =>
    LET i == probe.node
        out == probe.section
        code == CodeMentions(page, i, funcName)
        list == page[i].tag \in {"table", "ul", "ol"}
    IN IF isHeadingElement(page, i)
       THEN /\ \A c \in Region(page, i, funcName) : Part(page, out, c) = Html(page, c)
            /\ \A k \in 1..Len(out) :
                  \/ out[k] = NL
                  \/ From(page, out[k], i)
                  \/ \E c \in InSection(page, i) : From(page, out[k], c)
       ELSE /\ \A c \in code :
                  \E k \in 1..Len(out) :
                     /\ k + Len(Html(page, c)) <= Len(out)
                     /\ SubSeq(out, k, k + Len(Html(page, c)) - 1) = Html(page, c)
                     /\ out[k + Len(Html(page, c))] = NL
            /\ list =>
                  /\ Len(out) > Len(Html(page, i))
                  /\ SubSeq(out, Len(out) - Len(Html(page, i)), Len(out))
                       = Html(page, i) \o <<NL>>
            /\ ~list =>
                  \A k \in 1..Len(out) :
                     out[k] = NL \/ \E c \in code : From(page, out[k], c)
            /\ Len(out) = Cardinality(code) + (IF list THEN 1 + Len(Html(page, i)) ELSE 0)
                          + Len(Flatten([c \in 1..Len(page) |->
                                           IF c \in code THEN Html(page, c) ELSE <<>>]))

\* C17 happens: a call on a container that is not a heading returned the
\* content of a code element and nothing of a table beside it.
C17_Witness ==
    /\ probe.node # 0 /\ probe.container
    /\ ~isHeadingElement(page, probe.node)
    /\ \E c \in Descendants(page, probe.node) :
          page[c].tag = "code" /\ Part(page, probe.section, c) = Html(page, c)
    /\ \E t \in Descendants(page, probe.node) :
          /\ page[t].tag = "table"
          /\ Contains(page, Text(page, t), funcName)
          /\ Part(page, probe.section, t) = <<>>

\* The headings of doc that are children of body, mention the symbol and are
\* followed by a paragraph of their section, nothing else mentioning it.
LoneBodyHeadings(doc, f) ==
    { h \in SectionHeads(doc, f) :
         /\ doc[doc[h].par].tag = "body"
         /\ \E j \in InSection(doc, h) : doc[j].tag = "p"
         /\ \A n \in 1..Len(doc) :
               (n # h /\ ~IsAncestor(doc, n, h)) => ~Mentions(doc, n, f) }

\* C18: the fallback hands headings that mention the symbol to the section
\* extractor, so a page whose only mention of the symbol is a heading
\* directly under body, followed by paragraphs, yields that section and not
\* the symbol-not-found failure.
C18_FallbackTakesHeadings ==
    (Extracted /\ funcName = "S") =>
    \A h \in LoneBodyHeadings(page, funcName) :
       /\ err = "nil"
       /\ Occurs(ret, Tok(h, "<h"))
       /\ \A j \in InSection(page, h) : CoversAll(ret, Html(page, j))

\* C19: in the fallback no html, body, head, nav, header or footer element
\* is handed to the section extractor, so none of them yields a fragment.
C19_FallbackSkipsChrome ==
    \A k \in 1..Len(content) :
       content[k].p = 2 =>
          page[content[k].n].tag \notin {"html", "body", "head", "nav", "header", "footer"}

\* The elements of a sequence.
Range(seq) == { seq[k] : k \in 1..Len(seq) }

\* Was the fragment written through a symbol-specific selector of the first
\* collector?  Through a generic one?
ThroughSymbolSelector(frag) ==
    /\ frag.p = 1
    /\ frag.cb \in 1..Len(selectors(funcName))
    /\ selectors(funcName)[frag.cb] \in Range(symbolSelectors)

ThroughGenericSelector(frag) ==
    /\ frag.p = 1
    /\ frag.cb \in 1..Len(selectors(funcName))
    /\ selectors(funcName)[frag.cb] \in Range(genericSelectors)

\* C20: with a non-empty symbol the eight symbol-specific selectors are tried
\* before any generic selector: in the buffer every fragment written through
\* a symbol-specific selector precedes every fragment written through a
\* generic selector.
C20_SymbolSelectorsFirst ==
    funcName # "" =>
       /\ Len(selectors(funcName)) = Len(symbolSelectors) + Len(genericSelectors)
       /\ Len(symbolSelectors) = 8
       /\ \A a, b \in 1..Len(selectors(funcName)) :
             ( /\ selectors(funcName)[a] \in Range(symbolSelectors)
               /\ selectors(funcName)[b] \in Range(genericSelectors) ) => a < b
       /\ \A k, l \in 1..Len(content) :
             (ThroughSymbolSelector(content[k]) /\ ThroughGenericSelector(content[l]))
             => k < l

\* C20 happens: both kinds of selector wrote, the generic one for an element
\* that precedes the symbol-specific one's element in the document.
C20_Witness ==
    /\ funcName = "S" /\ pc = "done" /\ err = "nil"
    /\ \E k, l \in 1..Len(content) :
          /\ ThroughSymbolSelector(content[k])
          /\ ThroughGenericSelector(content[l])
          /\ content[l].n < content[k].n

\* The first collector's callbacks have run and the buffer was not reset.
FirstPassDone == page # <<>> /\ 1 \notin handling /\ collectors = 1

\* The pre, code and table elements inside element i.
Captured(doc, i) ==
    { c \in Descendants(doc, i) : doc[c].tag \in {"pre", "code", "table"} }

\* Is s the group the empty-symbol branch writes for element i: the trimmed
\* text and a blank line, then each captured element's content between
\* newlines?
IsGroup(doc, i, s) ==
    LET text == TrimSpace(Text(doc, i))
        lead == IF text = <<>> THEN <<>> ELSE text \o <<NL, NL>>
        rest == SubSeq(s, Len(lead) + 1, Len(s))
    IN /\ Len(s) >= Len(lead)
       /\ SubSeq(s, 1, Len(lead)) = lead
       /\ \A c \in Captured(doc, i) :
             \E k \in 1..Len(rest) :
                /\ k + Len(Html(doc, c)) + 1 <= Len(rest)
                /\ SubSeq(rest, k, k + Len(Html(doc, c)) + 1)
                     = <<NL>> \o Html(doc, c) \o <<NL>>
       /\ Len(rest) = 2 * Cardinality(Captured(doc, i))
                      + Len(Flatten([c \in 1..Len(doc) |->
                                       IF c \in Captured(doc, i) THEN Html(doc, c) ELSE <<>>]))

\* C21 as stated: with the empty symbol the groups of the elements matched
\* by generic selectors stand in the document order of the elements, not in
\* the order of the selector list.
C21_GroupsInDocumentOrder ==
    funcName = "" =>
    \A k, l \in 1..Len(content) :
       (k < l /\ ThroughGenericSelector(content[k]) /\ ThroughGenericSelector(content[l]))
       => content[k].n <= content[l].n

\* C21, amended: with the empty symbol the buffer holds, between the title
\* lines and the fenced pre/code texts, one group for every pair of a generic
\* selector and an element it matches (an element matched by two selectors
\* has two groups): the element's trimmed text followed by the content of
\* the pre, code and table elements inside it.  The groups stand in the order
\* of the selector list and, for one selector, in document order.
C21_GroupsInSelectorOrder ==
    (funcName = "" /\ FirstPassDone) =>
    /\ \A k, l \in 1..Len(content) :
          (k < l /\ ThroughGenericSelector(content[k]) /\ ThroughGenericSelector(content[l]))
          => \/ content[k].cb < content[l].cb
             \/ content[k].cb = content[l].cb /\ content[k].n < content[l].n
    /\ \A k \in 1..Len(content) :
          ThroughGenericSelector(content[k]) => IsGroup(page, content[k].n, content[k].s)
    /\ \A c \in 1..Len(genericSelectors) : \A i \in 1..Len(page) :
          ( /\ Matches(page, i, genericSelectors[c])
            /\ (TrimSpace(Text(page, i)) # <<>> \/ Captured(page, i) # {}) )
          => Cardinality({ k \in 1..Len(content) :
                             content[k].cb = c /\ content[k].n = i }) = 1

\* C21 happens: the group of main stands before the group of an article that
\* precedes main in the document, and the article has a second group.
C21_Witness ==
    /\ funcName = "" /\ pc = "done" /\ err = "nil"
    /\ \E k, l \in 1..Len(content) :
          /\ k < l
          /\ ThroughGenericSelector(content[k]) /\ ThroughGenericSelector(content[l])
          /\ content[k].n > content[l].n
          /\ \E m \in (l + 1)..Len(content) :
                ThroughGenericSelector(content[m]) /\ content[m].n = content[l].n

\* The index of the "pre, code" callback among the first collector's.
HarvesterIndex == Len(selectors(funcName)) + 1

ThroughHarvester(frag) == frag.p = 1 /\ frag.cb = HarvesterIndex

\* Does the harvester's filter let element i pass?
Related(doc, i, f) == f = "" \/ Contains(doc, Text(doc, i), f)

\* C22 as stated: in the first pass every pre, code and table element whose
\* text contains the symbol (every one when the symbol is empty) contributes
\* a harvester fragment, and the harvester's fragments follow all others.
C22_HarvestsCodeAndTables ==
    FirstPassDone =>
    /\ \A i \in 1..Len(page) :
          (page[i].tag \in {"pre", "code", "table"} /\ Related(page, i, funcName))
          => \E k \in 1..Len(content) : ThroughHarvester(content[k]) /\ content[k].n = i
    /\ \A k, l \in 1..Len(content) :
          (k < l /\ ThroughHarvester(content[k])) => ThroughHarvester(content[l])

\* C22, amended: in the first pass every pre and code element with non-empty
\* text that contains the symbol (any non-empty text when the symbol is
\* empty) contributes one harvester fragment, its text between fences,
\* whether or not a container selector matched around it; a table, and a pre
\* or code without text, contributes none; the harvester's fragments follow
\* all title and selector fragments.
C22_HarvestsCode ==
    FirstPassDone =>
    /\ \A i \in 1..Len(page) :
          ( /\ page[i].tag \in {"pre", "code"}
            /\ Text(page, i) # <<>>
            /\ Related(page, i, funcName) )
          => /\ Cardinality({ k \in 1..Len(content) :
                                ThroughHarvester(content[k]) /\ content[k].n = i }) = 1
             /\ \A k \in 1..Len(content) :
                   (ThroughHarvester(content[k]) /\ content[k].n = i)
                   => /\ Part(page, content[k].s, i) = Text(page, i)
                      /\ Len(content[k].s) = Len(Text(page, i)) + 6
                      /\ content[k].s[2] = Tok(0, "fence")
                      /\ content[k].s[Len(content[k].s) - 1] = Tok(0, "fence")
    /\ \A k \in 1..Len(content) :
          ThroughHarvester(content[k])
          => /\ page[content[k].n].tag \in {"pre", "code"}
             /\ Text(page, content[k].n) # <<>>
             /\ Related(page, content[k].n, funcName)
    /\ \A k, l \in 1..Len(content) :
          (k < l /\ ThroughHarvester(content[k])) => ThroughHarvester(content[l])

\* C22 happens: a pre outside every matched container left a fenced fragment
\* after the fragment of a selector, and a table left none.
C22_Witness ==
    /\ pc = "done" /\ err = "nil" /\ FirstPassDone
    /\ \E k, l \in 1..Len(content) :
          /\ k < l
          /\ ~ThroughHarvester(content[k])
          /\ ThroughHarvester(content[l])
          /\ page[page[content[l].n].par].tag = "aside"
    /\ \E t \in 1..Len(page) :
          /\ page[t].tag = "table"
          /\ Related(page, t, funcName)
          /\ \A k \in 1..Len(content) : ThroughHarvester(content[k]) => content[k].n # t

FetchErrors == {"error visiting URL", "error in second visit to URL"}

\* Two calls with the same docURL and funcName have returned, neither cut
\* short by a failed fetch.
BothReturned ==
    /\ runs # <<>>
    /\ pc = "done"
    /\ err \notin FetchErrors
    /\ runs[1].err \notin FetchErrors

C24_VerboseDoesNotInterfere ==
    (BothReturned /\ verbose # runs[1].verbose) =>
       /\ visits = runs[1].visits
       /\ collectors = runs[1].collectors
       /\ err = runs[1].err
       /\ ret = runs[1].ret

\* C24 happens: the verbose call logged a cut preview of a result longer
\* than previewLimit, the other call logged nothing, and both returned the
\* whole result.
C24_Witness ==
    /\ BothReturned /\ verbose /\ ~runs[1].verbose
    /\ err = "nil"
    /\ Bytes(ret) > previewLimit
    /\ ret = runs[1].ret
    /\ runs[1].logged = <<>>
    /\ Len(logged) = 2
    /\ logged[2] # ret

\* Does element i, or an element inside it, pass isFunctionContainer?
HoldsContainer(doc, i, f) ==
    \/ isFunctionContainer(doc, i, f)
    \/ \E c \in Descendants(doc, i) : isFunctionContainer(doc, c, f)

\* The pairs <<callback, element>> of the first pass whose element mentions
\* the symbol and holds no function container.
BarrenMatches(doc, f) ==
    { ci \in (1..Len(selectors(f))) \X (1..Len(doc)) :
         /\ Matches(doc, ci[2], selectors(f)[ci[1]])
         /\ Contains(doc, Text(doc, ci[2]), f)
         /\ ~HoldsContainer(doc, ci[2], f) }

\* C25: a matched root without any function container is not an error: it
\* is handed to extractRelevantSection, which returns the empty string, and
\* it appends nothing; the callbacks after it still run and write, and the
\* fallback decision is taken once, on the buffer every first-pass callback
\* has written to.
C25_BarrenRootIsNoError ==
    (funcName # "" /\ page # <<>>) =>
    /\ \A ci \in BarrenMatches(page, funcName) :
          /\ 1 \notin handling => <<1, ci[1], ci[2]>> \in handed
          /\ \A k \in 1..Len(content) :
                ~(content[k].p = 1 /\ content[k].cb = ci[1] /\ content[k].n = ci[2])
    /\ (FirstPassDone /\ BarrenMatches(page, funcName) # {}) =>
          /\ invoked = FirstPassCalls(page, funcName)
          /\ \A i \in 1..Len(page) :
                ( /\ page[i].tag \in {"pre", "code"}
                  /\ Contains(page, Text(page, i), funcName) )
                => \E k \in 1..Len(content) :
                      content[k].cb = Len(selectors(funcName)) + 1 /\ content[k].n = i
    /\ pc \in {"second", "revisiting", "final", "done"} =>
          /\ firstResult = String(FirstPass(page, funcName))
          /\ collectors = (IF ~Contains(page, firstResult, funcName) THEN 2 ELSE 1)
    /\ ( /\ pc = "done" /\ err \notin FetchErrors
         /\ BarrenMatches(page, funcName) # {}
         /\ Contains(page, firstResult, funcName) )
       => err = "nil" /\ visits = 1 /\ ret = firstResult

\* C25 happens: main mentions the symbol and holds no function container;
\* the call returned what the later "pre, code" callback wrote.
C25_Witness ==
    /\ pc = "done" /\ err = "nil" /\ funcName = "S" /\ visits = 1
    /\ \E ci \in BarrenMatches(page, funcName) :
          /\ page[ci[2]].tag = "main"
          /\ <<1, ci[1], ci[2]>> \in handed
          /\ \E k \in 1..Len(content) :
                content[k].cb = Len(selectors(funcName)) + 1 /\ content[k].n > ci[2]

\* C27: with a non-empty symbol, an element matched by a first-pass selector
\* whose text does not contain the symbol is not handed to
\* extractRelevantSection and appends nothing, even when it was matched
\* through an attribute equal to the symbol or a decorated form.
C27_FirstPassTextFilter ==
    (funcName # "" /\ page # <<>>) =>
    /\ \A h \in handed :
          h[1] = 1 => Contains(page, Text(page, h[3]), funcName)
    /\ \A k \in 1..Len(content) :
          (content[k].p = 1 /\ content[k].cb \in 1..Len(selectors(funcName)))
          => Contains(page, Text(page, content[k].n), funcName)

\* C27 happens: an element with an id derived from the symbol, matched by a
\* symbol-specific selector, whose text does not mention the symbol, was
\* passed over by a first pass that has run.
C27_Witness ==
    /\ funcName = "S" /\ pc = "done" /\ err \notin FetchErrors /\ page # <<>>
    /\ \E i \in 1..Len(page) : \E c \in 1..Len(symbolSelectors) :
          /\ Matches(page, i, selectors(funcName)[c])
          /\ ~Contains(page, Text(page, i), funcName)
          /\ \A h \in handed : h[3] # i
          /\ \A k \in 1..Len(content) : content[k].n # i
    /\ invoked >= FirstPassCalls(page, funcName)

ThroughSelector(frag) == frag.p = 1 /\ frag.cb \in 1..Len(selectors(funcName))

\* The selectors of the first pass that match element i.
MatchingSelectors(doc, i, f) ==
    { c \in 1..Len(selectors(f)) : Matches(doc, i, selectors(f)[c]) }

\* The elements around heading h that the fallback accepts and that are not
\* themselves function containers.
AcceptedAround(doc, h, f) ==
    { a \in 1..Len(doc) :
         /\ IsAncestor(doc, a, h)
         /\ isContentElement(doc[a].tag)
         /\ ~isFunctionContainer(doc, a, f) }

\* The fallback's callback has run.
FallbackDone ==
    /\ collectors = 2 /\ visits = 2 /\ 2 \notin handling
    /\ err # "error in second visit to URL"

\* C28: duplication is not suppressed: an element matched by k first-pass
\* selectors that writes at all leaves k equal fragments, one per selector,
\* whatever earlier selectors wrote; in the fallback the section of a heading
\* is appended once for every accepted element around it.
C28_DuplicatesKept ==
    /\ FirstPassDone =>
          \A i \in 1..Len(page) :
             LET mine == { k \in 1..Len(content) :
                             ThroughSelector(content[k]) /\ content[k].n = i }
             IN /\ Cardinality(mine) =
                      (IF OnSelector(page, i, funcName) # <<>>
                       THEN Cardinality(MatchingSelectors(page, i, funcName)) ELSE 0)
                /\ \A k, l \in mine : content[k].s = content[l].s
                /\ \A k, l \in mine : k # l => content[k].cb # content[l].cb
    /\ FallbackDone =>
          \A h \in SectionHeads(page, funcName) :
             Cardinality({ k \in 1..Len(content) :
                             content[k].p = 2 /\ Occurs(content[k].s, Tok(h, "<h")) })
             = Cardinality(AcceptedAround(page, h, funcName))

\* C28 happens: an element matched by two selectors left two equal fragments
\* after an earlier selector had already written.
C28_Witness ==
    /\ pc = "done" /\ err = "nil" /\ FirstPassDone
    /\ \E k, l, m \in 1..Len(content) :
          /\ k < l /\ l < m
          /\ ThroughSelector(content[k]) /\ content[k].n # content[l].n
          /\ ThroughSelector(content[l]) /\ ThroughSelector(content[m])
          /\ content[l].n = content[m].n
          /\ content[l].s = content[m].s

\* A reachable case of the fallback: the same section appended for each of
\* two accepted elements around the heading (aside inside aside).
SectionAppendedTwice ==
    /\ pc = "done" /\ err = "nil" /\ FallbackDone
    /\ \E h \in SectionHeads(page, funcName) :
          /\ Cardinality(AcceptedAround(page, h, funcName)) = 2
          /\ Len(content) = 2
          /\ content[1].s = content[2].s

\* The title elements of doc whose text contains the symbol.
SymbolTitles(doc, f) ==
    { t \in 1..Len(doc) : doc[t].tag = "title" /\ Contains(doc, Text(doc, t), f) }

\* C29: the first pass appends a title line for every title element, so with
\* a non-empty symbol that the title text contains, the first-pass buffer
\* contains the symbol, the fallback is not run and the call succeeds,
\* whatever else was or was not extracted.
C29_TitleDecides ==
    (funcName # "" /\ page # <<>> /\ SymbolTitles(page, funcName) # {}) =>
    /\ FirstPassDone =>
          \A t \in 1..Len(page) :
             page[t].tag = "title" =>
                \E k \in 1..Len(content) :
                   /\ content[k].cb = 0 /\ content[k].n = t
                   /\ content[k].s = <<Tok(0, "# ")>> \o Text(page, t) \o <<NL, NL>>
    /\ pc \in {"second", "revisiting"} => FALSE
    /\ pc \in {"final", "done"} =>
          /\ Contains(page, firstResult, funcName)
          /\ collectors = 1 /\ visits = 1
    /\ pc = "done" => (err = "nil" /\ ret = firstResult /\ ret # <<>>)

\* C29 happens: the title line is all the first pass wrote, although the
\* body mentions the symbol in a paragraph the fallback would accept, and
\* the call returned it.
C29_Witness ==
    /\ pc = "done" /\ err = "nil" /\ funcName = "S"
    /\ SymbolTitles(page, funcName) # {}
    /\ Len(content) = 1 /\ content[1].cb = 0
    /\ \E i \in 1..Len(page) :
          /\ page[i].tag = "p"
          /\ Contains(page, Text(page, i), funcName)
    /\ ret = content[1].s

(***************************************************************************)
(* runTypeGen                                                              *)
(***************************************************************************)
Pipeline == <<"scrape", "client", "generate", "write">>

\* The error runTypeGen returns when the named step is its last.
StepErrors(step) ==
    CASE step = "scrape"   -> {"error scraping documentation", "no content extracted"}
      [] step = "client"   -> {"error creating AI client"}
      [] step = "generate" -> {"error generating type definitions"}
      [] step = "write"    -> {"error writing to output file"}

\* C30: runTypeGen performs the scrape, the creation of the AI client, the
\* generation and the write of the output file in that order and stops at the
\* first step that fails, returning that step's error; the output file is
\* touched only after the scrape returned non-empty content and the generation
\* succeeded; after a scrape failure there was no AI call and the file is
\* untouched; after a generation failure the file is untouched.
C30_PipelineInOrder ==
    LET t == typegen
        n == Len(t.steps)
    IN  /\ n <= Len(Pipeline)
        /\ \A i \in 1..n : t.steps[i] = Pipeline[i]
        /\ t.err # "nil" =>
              /\ t.pc = "returned"
              /\ n > 0
              /\ t.err \in StepErrors(t.steps[n])
        /\ (t.pc = "returned" /\ t.err = "nil") => t.steps = Pipeline
        /\ (t.pc = "returned" /\ err # "nil") =>
              /\ t.err = "error scraping documentation"
              /\ t.steps = <<"scrape">>
        /\ t.err \in StepErrors("scrape") =>
              /\ t.aiCalls = 0
              /\ t.file = t.file0
        /\ t.err \in StepErrors("generate") => t.file = t.file0
        /\ t.aiCalls > 0 => (pc = "done" /\ err = "nil" /\ t.docContent = ret)
        /\ t.file # t.file0 =>
              /\ t.steps = Pipeline
              /\ t.docContent # <<>>
              /\ t.aiCalls = 1
              /\ t.err \in {"nil", "error writing to output file"}

\* runTypeGen returned nil after the second pass supplied the content, and
\* replaced the file an earlier run had left.
C30_Witness ==
    /\ typegen.pc = "returned"
    /\ typegen.err = "nil"
    /\ typegen.file0 = "old"
    /\ typegen.file = <<"written", "definitions">>
    /\ visits = 2

\* runTypeGen stopped at a failed scrape.
ScrapeFailureStops ==
    /\ typegen.pc = "returned"
    /\ typegen.err = "error scraping documentation"

\* runTypeGen stopped at a failed generation.
GenerationFailureStops ==
    /\ typegen.pc = "returned"
    /\ typegen.err = "error generating type definitions"

(***************************************************************************)
(* docgen --dir                                                            *)
(***************************************************************************)
\* The run of generateProjectDocumentation returned nil.
ReturnedNil == docgen.pc = "returned" /\ docgen.err = "nil"

\* The docs directory holds, under the file's documentation name, the
\* documentation generated for this file.
HasOwnDoc(rel) ==
    /\ DocName(rel) \in DOMAIN docgen.docs
    /\ docgen.docs[DocName(rel)].of = rel

\* The combined file holds the file's documentation in the section of the
\* file's directory.
InCombined(rel) ==
    /\ docgen.combined.written
    /\ \E k \in DOMAIN docgen.combined.sections :
          /\ docgen.combined.sections[k].dir = Dir(rel)
          /\ \E n \in DOMAIN docgen.combined.sections[k].files :
                /\ docgen.combined.sections[k].files[n].header = Base(rel)
                /\ docgen.combined.sections[k].files[n].content.of = rel

\* C26: after a run of generateProjectDocumentation that returns without
\* error, the docs directory holds an individual documentation file for each
\* source file the walk found, and the combined output file holds the
\* documentation of each of them in the section of its directory.
C26_EveryFoundFileDocumented ==
    ReturnedNil =>
        \A i \in DOMAIN docgen.codeFiles :
            /\ HasOwnDoc(docgen.codeFiles[i])
            /\ InCombined(docgen.codeFiles[i])

\* A run returned nil with every found file documented and combined.
AllDocumented ==
    /\ ReturnedNil
    /\ Len(docgen.codeFiles) = 2
    /\ \A i \in DOMAIN docgen.codeFiles :
          HasOwnDoc(docgen.codeFiles[i]) /\ InCombined(docgen.codeFiles[i])

\* A run returned nil, no step failed for any file, and the documentation
\* of one file was overwritten by that of another.
Overwritten ==
    /\ ReturnedNil
    /\ Len(docgen.fileInfos) = Len(docgen.codeFiles)
    /\ \E i \in DOMAIN docgen.codeFiles : ~HasOwnDoc(docgen.codeFiles[i])

\* A run returned nil although a file was skipped after a warning.
SkippedWithWarning ==
    /\ ReturnedNil
    /\ Len(docgen.fileInfos) < Len(docgen.codeFiles)

\* What holds of every run: each file the loop completed has a file under
\* its documentation name and an entry, under its own header, in the section
\* of its directory, holding what that documentation file holds at the end.
CompletedFilesListed ==
    ReturnedNil =>
        \A i \in DOMAIN docgen.fileInfos :
            LET info == docgen.fileInfos[i] IN
            /\ info.DocPath \in DOMAIN docgen.docs
            /\ \E k \in DOMAIN docgen.combined.sections :
                  /\ docgen.combined.sections[k].dir = Dir(info.RelativePath)
                  /\ \E n \in DOMAIN docgen.combined.sections[k].files :
                        /\ docgen.combined.sections[k].files[n].header = Base(info.RelativePath)
                        /\ docgen.combined.sections[k].files[n].content = docgen.docs[info.DocPath]

====
